---- MODULE Spec2Model ----
(***************************************************************************)
(* Model of the blog-agent pipeline (src/src/pipeline.py) and of the       *)
(* functions it is built from: folder-name parsing, latest-N selection and *)
(* image collection (src/src/scan_folders.py), the restaurant lookup       *)
(* (src/src/places_client.py), the image analysis                          *)
(* (src/src/vision_client.py), the composer and the HTML writer            *)
(* (src/src/pipeline.py, src/src/writer.py, src/src/prompts.py) and the    *)
(* HTML rule validator (src/src/rules.py).                                 *)
(*                                                                         *)
(* Strings are sequences of Unicode code points (naturals), so that        *)
(* pattern matching, trimming, lower-casing and substring search are       *)
(* computed character by character as the Python code computes them.       *)
(***************************************************************************)
EXTENDS Integers, Sequences, FiniteSets, TLC

VARIABLES
    call,             \* the function call being examined: [fn |-> ..., arguments]
    result,           \* what that call returned, or the exception it raised
    config,           \* PipelineConfig of the run
    storage,          \* children of the input root and the files below each folder
    pc,               \* position of run_pipeline
    stagesRun,        \* stages entered so far, in order
    manifests,        \* list[Manifest] returned by stage 1
    restaurant_infos, \* dict folder_name -> RestaurantInfo (stage 2)
    vision_results,   \* dict folder_name -> list[VisionImageResult] (stage 3)
    reports,          \* dict folder_name -> RulesReport (stage 4)
    writes,           \* upload_text calls made so far: [folder_name, file_name]
    outcome           \* return value of run_pipeline, or the exception that ended it

vars == <<call, result, config, storage, pc, stagesRun, manifests,
          restaurant_infos, vision_results, reports, writes, outcome>>

pipelineVars == <<config, storage, pc, stagesRun, manifests,
                  restaurant_infos, vision_results, reports, writes, outcome>>

-----------------------------------------------------------------------------
(* Generic helpers on sequences and strings.                               *)

Min(a, b) == IF a <= b THEN a ELSE b

Range(s) == {s[i] : i \in 1..Len(s)}

\* Sequences over S of length at most n.
SeqsUpTo(S, n) == UNION {[1..k -> S] : k \in 0..n}

\* Concatenation of a sequence of sequences (by halves, to keep the
\* evaluation shallow on long texts).
RECURSIVE Flatten(_)
Flatten(ss) ==
    IF ss = <<>> THEN <<>>
    ELSE IF Len(ss) = 1 THEN ss[1]
    ELSE LET half == Len(ss) \div 2
         IN Flatten(SubSeq(ss, 1, half)) \o Flatten(SubSeq(ss, half + 1, Len(ss)))

\* `needle in haystack` of Python: needle occurs as a contiguous substring.
Contains(haystack, needle) ==
    \E i \in 1..(Len(haystack) - Len(needle) + 1) :
        SubSeq(haystack, i, i + Len(needle) - 1) = needle

\* Python compares str values code point by code point.
RECURSIVE StrLess(_, _)
StrLess(a, b) ==
    IF b = <<>> THEN FALSE
    ELSE IF a = <<>> THEN TRUE
    ELSE IF Head(a) # Head(b) THEN Head(a) < Head(b)
    ELSE StrLess(Tail(a), Tail(b))

\* Code points str.strip() removes (str.isspace()).
WHITESPACE == {9, 10, 11, 12, 13, 28, 29, 30, 31, 32, 133, 160, 5760,
               8232, 8233, 8239, 8287, 12288} \cup (8192..8202)

\* str.lstrip(): from the first character that is not whitespace.
LStrip(s) ==
    LET solid == {i \in 1..Len(s) : s[i] \notin WHITESPACE}
    IN IF solid = {} THEN <<>>
       ELSE SubSeq(s, CHOOSE i \in solid : \A j \in solid : i <= j, Len(s))

\* str.rstrip(): up to the last character that is not whitespace.
RStrip(s) ==
    LET solid == {i \in 1..Len(s) : s[i] \notin WHITESPACE}
    IN IF solid = {} THEN <<>>
       ELSE SubSeq(s, 1, CHOOSE i \in solid : \A j \in solid : i >= j)

\* Variant of strip() that trims the left end only.
StripLeftOnly(s) == LStrip(s)

\* str.strip()
Strip(s) == RStrip(LStrip(s))

\* str.lower() on the characters the model's documents contain: the ASCII
\* capitals map to their small letters, everything else (digits, punctuation,
\* Hangul, emoji) is left alone.
LowerChar(c) == IF c \in 65..90 THEN c + 32 ELSE c
Lower(s) == [i \in 1..Len(s) |-> LowerChar(s[i])]

-----------------------------------------------------------------------------
(* scan_folders.py: parse_source_folder_name                               *)

UNDERSCORE == 95
NEWLINE == 10

\* \d of Python's re on str patterns: every Unicode decimal digit. The model
\* keeps the ASCII digits and the ARABIC-INDIC digits U+0660..U+0669.
IsDigit(c) == c \in 48..57 \/ c \in 1632..1641
IsAsciiDigit(c) == c \in 48..57
DigitValue(c) == IF c \in 48..57 THEN c - 48 ELSE c - 1632

\* int() of a string of decimal digits.
RECURSIVE ToInt(_)
ToInt(s) == IF s = <<>> THEN 0
            ELSE 10 * ToInt(SubSeq(s, 1, Len(s) - 1)) + DigitValue(s[Len(s)])

NoMatch == [matched |-> FALSE]

\* FOLDER_NAME_PATTERN.match(folder_name) for ^(\d{8})_(.+)$ : `.` matches
\* everything but a line feed, and `$` matches at the end of the string or
\* just before a line feed that ends it.
MatchFolderName(folder_name) ==
    IF Len(folder_name) < 10 THEN NoMatch
    ELSE IF \E i \in 1..8 : ~IsDigit(folder_name[i]) THEN NoMatch
    ELSE IF folder_name[9] # UNDERSCORE THEN NoMatch
    ELSE LET rest == SubSeq(folder_name, 10, Len(folder_name))
             nl   == {i \in 1..Len(rest) : rest[i] = NEWLINE}
         IN IF nl = {} THEN
                [matched |-> TRUE, visit_date |-> SubSeq(folder_name, 1, 8),
                 restaurant_name |-> rest]
            ELSE IF nl = {Len(rest)} /\ Len(rest) >= 2 THEN
                [matched |-> TRUE, visit_date |-> SubSeq(folder_name, 1, 8),
                 restaurant_name |-> SubSeq(rest, 1, Len(rest) - 1)]
            ELSE NoMatch

\* Alternatives of the %m directive of _strptime, in the order the regular
\* expression tries them: 1[0-2] | 0[1-9] | [1-9]. The value is the sequence
\* of lengths that match at position p.
MonthAlternatives(s, p) ==
    (IF p + 1 <= Len(s)
        /\ \/ (s[p] = 49 /\ s[p + 1] \in 48..50)
           \/ (s[p] = 48 /\ s[p + 1] \in 49..57)
     THEN <<2>> ELSE <<>>)
    \o (IF p <= Len(s) /\ s[p] \in 49..57 THEN <<1>> ELSE <<>>)

\* Alternatives of %d: 3[01] | [12]\d | 0[1-9] | [1-9] | " "[1-9].
DayAlternatives(s, p) ==
    (IF p + 1 <= Len(s)
        /\ \/ (s[p] = 51 /\ s[p + 1] \in 48..49)
           \/ (s[p] \in 49..50 /\ IsDigit(s[p + 1]))
           \/ (s[p] = 48 /\ s[p + 1] \in 49..57)
     THEN <<2>> ELSE <<>>)
    \o (IF p <= Len(s) /\ s[p] \in 49..57 THEN <<1>> ELSE <<>>)
    \o (IF p + 1 <= Len(s) /\ s[p] = 32 /\ s[p + 1] \in 49..57 THEN <<2>> ELSE <<>>)

\* Variant of the calendar that forgets February.
DaysInMonthAlways31(y, m) == IF m \in {4, 6, 9, 11} THEN 30 ELSE 31

IsLeapYear(y) == (y % 4 = 0) /\ ((y % 100 # 0) \/ (y % 400 = 0))

DaysInMonth(y, m) ==
    IF m = 2 THEN (IF IsLeapYear(y) THEN 29 ELSE 28)
    ELSE IF m \in {4, 6, 9, 11} THEN 30 ELSE 31

\* datetime.strptime(visit_date, "%Y%m%d") succeeds: the format's regular
\* expression (\d\d\d\d)(month)(day) matches a prefix, taking the first
\* alternative that lets the rest match; nothing may be left over; and the
\* fields form a date datetime accepts (year >= 1, day within the month).
StrptimeOk(visit_date) ==
    IF Len(visit_date) < 4 \/ (\E i \in 1..4 : ~IsDigit(visit_date[i])) THEN FALSE
    ELSE
    LET ms    == MonthAlternatives(visit_date, 5)
        paths == Flatten([i \in 1..Len(ms) |->
                    LET ds == DayAlternatives(visit_date, 5 + ms[i])
                    IN [j \in 1..Len(ds) |-> <<ms[i], ds[j]>>]])
    IN IF paths = <<>> THEN FALSE
       ELSE LET mlen == paths[1][1]
                dlen == paths[1][2]
                year  == ToInt(SubSeq(visit_date, 1, 4))
                month == ToInt(SubSeq(visit_date, 5, 4 + mlen))
                day   == ToInt(Strip(SubSeq(visit_date, 5 + mlen, 4 + mlen + dlen)))
            IN /\ 4 + mlen + dlen = Len(visit_date)
               /\ year >= 1
               /\ day <= DaysInMonth(year, month)

ValueError == [raised |-> "ValueError"]
Raised(r) == "raised" \in DOMAIN r

\* parse_source_folder_name
ParseSourceFolderName(folder_name) ==
    LET match == MatchFolderName(folder_name)
    IN IF ~match.matched THEN ValueError
       ELSE LET restaurant_name == Strip(match.restaurant_name)
            IN IF restaurant_name = <<>> THEN ValueError
               ELSE IF ~StrptimeOk(match.visit_date) THEN ValueError
               ELSE [visit_date |-> match.visit_date,
                     restaurant_name |-> restaurant_name]

-----------------------------------------------------------------------------
(* The pipeline is not running while a single function is examined.        *)

NoCall == [fn |-> "none"]
NoResult == [none |-> TRUE]

PipelineIdle ==
    /\ config = [stage |-> 1, write_intermediates |-> FALSE, latest |-> 1,
                 places |-> "none", vision |-> "none"]
    /\ storage = [root_exists |-> TRUE, children |-> <<>>, folders |-> <<>>]
    /\ pc = "idle"
    /\ stagesRun = <<>>
    /\ manifests = <<>>
    /\ restaurant_infos = <<>>
    /\ vision_results = <<>>
    /\ reports = <<>>
    /\ writes = <<>>
    /\ outcome = NoResult

-----------------------------------------------------------------------------
(* Folder names given to parse_source_folder_name.                         *)

\* Longest text tried after the date and the separator.
MaxRestLen == 2

Digits2(n) == <<48 + ((n \div 10) % 10), 48 + (n % 10)>>
Digits4(n) == <<48 + ((n \div 1000) % 10), 48 + ((n \div 100) % 10)>> \o Digits2(n)
Date8(y, m, d) == Digits4(y) \o Digits2(m) \o Digits2(d)

YearsTried == {0, 2024, 2026, 2100}
MonthsTried == {0, 1, 2, 4, 12, 13}
DaysTried == {0, 1, 28, 29, 30, 31, 32}

\* Date parts that are not eight ASCII digits: "2026021", "202602140",
\* "2026-02-", "not_a_da", "2026O214", and two with ARABIC-INDIC digits
\* (year U+0662 U+0660 U+0662 U+0666, and month U+0660 U+0662).
OddDateParts ==
    { <<50, 48, 50, 54, 48, 50, 49>>,
      <<50, 48, 50, 54, 48, 50, 49, 52, 48>>,
      <<50, 48, 50, 54, 45, 48, 50, 45>>,
      <<110, 111, 116, 95, 97, 95, 100, 97>>,
      <<50, 48, 50, 54, 79, 50, 49, 52>>,
      <<1634, 1632, 1634, 1638, 48, 50, 49, 52>>,
      <<50, 48, 50, 54, 1632, 1634, 49, 52>> }

DateParts ==
    {Date8(y, m, d) : y \in YearsTried, m \in MonthsTried, d \in DaysTried}
    \cup OddDateParts

\* "_", "-" and no separator at all.
Separators == {<<95>>, <<45>>, <<>>}

\* "a", " " and a line feed.
RestAlphabet == {97, 32, 10}
RestParts == SeqsUpTo(RestAlphabet, MaxRestLen)

FolderNames ==
    {d \o sep \o r : d \in DateParts, sep \in Separators, r \in RestParts}

\* The input is drawn at the start; the call is made once.
ParseInit ==
    /\ call \in {[fn |-> "parse_source_folder_name", folder_name |-> n] :
                    n \in FolderNames}
    /\ result = NoResult
    /\ PipelineIdle

CallParse ==
    /\ call.fn = "parse_source_folder_name"
    /\ result = NoResult
    /\ result' = ParseSourceFolderName(call.folder_name)
    /\ UNCHANGED <<call, pipelineVars>>

ParseNext == CallParse

SpecParse == ParseInit /\ [][ParseNext]_vars

-----------------------------------------------------------------------------
(* Properties of parse_source_folder_name.                                 *)

\* Days of each month of a common year.
MonthLengths == <<31, 28, 31, 30, 31, 30, 31, 31, 30, 31, 30, 31>>

\* y-m-d is a date of the (proleptic Gregorian) calendar.
RealCalendarDate(y, m, d) ==
    /\ m \in 1..12
    /\ d >= 1
    /\ d <= MonthLengths[m]
            + (IF m = 2 /\ y % 4 = 0 /\ (y % 100 # 0 \/ y % 400 = 0) THEN 1 ELSE 0)

IsBlank(s) == \A i \in 1..Len(s) : s[i] \in WHITESPACE

\* The name starts with eight digits and an underscore.
HasDatePrefix(n) ==
    /\ Len(n) >= 9
    /\ \A i \in 1..8 : IsDigit(n[i])
    /\ n[9] = UNDERSCORE

\* The malformed names of the claim: no eight digits followed by "_" (too
\* few or too many digits, a non-digit in the date), eight digits that are no
\* calendar date, or nothing but whitespace after the underscore.
Malformed(n) ==
    \/ ~HasDatePrefix(n)
    \/ ~RealCalendarDate(ToInt(SubSeq(n, 1, 4)), ToInt(SubSeq(n, 5, 6)),
                         ToInt(SubSeq(n, 7, 8)))
    \/ IsBlank(SubSeq(n, 10, Len(n)))

\* C7: parse_source_folder_name raises for every malformed name.
C7_MalformedNameRaises ==
    (call.fn = "parse_source_folder_name" /\ result # NoResult
        /\ Malformed(call.folder_name))
    => Raised(result)

\* C7 witness: "20260230_a", well formed but for the 30th of February, has
\* been rejected.
C7_Witness ==
    /\ call.fn = "parse_source_folder_name"
    /\ call.folder_name = Date8(2026, 2, 30) \o <<UNDERSCORE, 97>>
    /\ Raised(result)

\* The name is D_R with D eight ASCII digits that are a calendar date of the
\* years 0001..9999.
HasValidDate(n) ==
    /\ Len(n) >= 9
    /\ \A i \in 1..8 : IsAsciiDigit(n[i])
    /\ n[9] = UNDERSCORE
    /\ ToInt(SubSeq(n, 1, 4)) >= 1
    /\ RealCalendarDate(ToInt(SubSeq(n, 1, 4)), ToInt(SubSeq(n, 5, 6)),
                        ToInt(SubSeq(n, 7, 8)))

\* C8 as stated: for D a valid date and R non-empty, parse(D_R) returns
\* visit_date = D and restaurant_name = R, unchanged.
C8_Original ==
    (call.fn = "parse_source_folder_name" /\ result # NoResult
        /\ HasValidDate(call.folder_name) /\ Len(call.folder_name) >= 10)
    => result = [visit_date |-> SubSeq(call.folder_name, 1, 8),
                 restaurant_name |-> SubSeq(call.folder_name, 10, Len(call.folder_name))]

\* t is r without its leading and trailing whitespace.
IsTrimOf(t, r) ==
    /\ t # <<>>
    /\ t[1] \notin WHITESPACE
    /\ t[Len(t)] \notin WHITESPACE
    /\ \E i \in 1..Len(r) :
        /\ i + Len(t) - 1 <= Len(r)
        /\ SubSeq(r, i, i + Len(t) - 1) = t
        /\ \A j \in 1..Len(r) : (j < i \/ j > i + Len(t) - 1) => r[j] \in WHITESPACE

\* C8 amended: for D a valid date and R not blank and without a line feed,
\* parse(D_R) returns visit_date = D and restaurant_name = R with its leading
\* and trailing whitespace removed (R itself when it has none).
C8_RoundTripTrimmed ==
    LET n == call.folder_name
        r == SubSeq(n, 10, Len(n))
    IN (call.fn = "parse_source_folder_name" /\ result # NoResult
            /\ HasValidDate(n) /\ ~IsBlank(r)
            /\ \A i \in 1..Len(r) : r[i] # NEWLINE)
       => /\ ~Raised(result)
          /\ result.visit_date = SubSeq(n, 1, 8)
          /\ IsTrimOf(result.restaurant_name, r)
          /\ (r[1] \notin WHITESPACE /\ r[Len(r)] \notin WHITESPACE)
                => result.restaurant_name = r

\* C8 witness: "20240229_a " parsed into 20240229 and "a".
C8_Witness ==
    /\ call.fn = "parse_source_folder_name"
    /\ call.folder_name = Date8(2024, 2, 29) \o <<UNDERSCORE, 97, 32>>
    /\ result = [visit_date |-> Date8(2024, 2, 29), restaurant_name |-> <<97>>]

-----------------------------------------------------------------------------
(* scan_folders.py: list_source_folders and select_latest_source_folders   *)

\* "application/vnd.google-apps.folder"
DRIVE_FOLDER_MIME_TYPE ==
    <<97, 112, 112, 108, 105, 99, 97, 116, 105, 111, 110, 47, 118, 110, 100, 46, 103, 111, 111, 103, 108, 101, 45, 97, 112, 112, 115, 46, 102, 111, 108, 100, 101, 114>>

\* "image/jpeg"
MIME_JPEG == <<105, 109, 97, 103, 101, 47, 106, 112, 101, 103>>

Returned(v) == [value |-> v]
RuntimeError == [raised |-> "RuntimeError"]

\* Variant of list_source_folders that does not try the parser on the name.
RECURSIVE ListSourceFoldersUnparsed(_)
ListSourceFoldersUnparsed(children) ==
    IF children = <<>> THEN <<>>
    ELSE LET entry       == Head(children)
             folder_id   == Strip(entry.id)
             folder_name == Strip(entry.name)
             mime_type   == Strip(entry.mimeType)
             rest        == ListSourceFoldersUnparsed(Tail(children))
         IN IF mime_type # DRIVE_FOLDER_MIME_TYPE THEN rest
            ELSE IF folder_id = <<>> \/ folder_name = <<>> THEN rest
            ELSE <<[folder_id |-> folder_id, folder_name |-> folder_name]>> \o rest

\* list_source_folders: the children of the input root that are folders, have
\* an id and a name, and whose (trimmed) name the parser accepts, in listing
\* order.
RECURSIVE ListSourceFolders(_)
ListSourceFolders(children) ==
    IF children = <<>> THEN <<>>
    ELSE LET entry       == Head(children)
             folder_id   == Strip(entry.id)
             folder_name == Strip(entry.name)
             mime_type   == Strip(entry.mimeType)
             rest        == ListSourceFolders(Tail(children))
         IN IF mime_type # DRIVE_FOLDER_MIME_TYPE THEN rest
            ELSE IF folder_id = <<>> \/ folder_name = <<>> THEN rest
            ELSE IF Raised(ParseSourceFolderName(folder_name)) THEN rest
            ELSE <<[folder_id |-> folder_id, folder_name |-> folder_name]>> \o rest

\* Variant of the sort step that puts the pair in front of pairs with an equal
\* key (an unstable sort).
RECURSIVE InsertDescUnstable(_, _)
InsertDescUnstable(sorted, pair) ==
    IF sorted = <<>> THEN <<pair>>
    ELSE IF ~StrLess(pair[1], Head(sorted)[1]) THEN <<pair>> \o sorted
    ELSE <<Head(sorted)>> \o InsertDescUnstable(Tail(sorted), pair)

\* One step of list.sort(key=..., reverse=True): the pair goes behind every
\* pair whose key is greater than or equal to its own, so pairs with equal
\* keys keep the order in which they were appended.
RECURSIVE InsertDesc(_, _)
InsertDesc(sorted, pair) ==
    IF sorted = <<>> THEN <<pair>>
    ELSE IF StrLess(Head(sorted)[1], pair[1]) THEN <<pair>> \o sorted
    ELSE <<Head(sorted)>> \o InsertDesc(Tail(sorted), pair)

\* Variant of the sort without reverse=True: ascending keys.
RECURSIVE InsertAsc(_, _)
InsertAsc(sorted, pair) ==
    IF sorted = <<>> THEN <<pair>>
    ELSE IF StrLess(pair[1], Head(sorted)[1]) THEN <<pair>> \o sorted
    ELSE <<Head(sorted)>> \o InsertAsc(Tail(sorted), pair)

RECURSIVE SortAscending(_)
SortAscending(enriched) ==
    IF enriched = <<>> THEN <<>>
    ELSE InsertAsc(SortAscending(SubSeq(enriched, 1, Len(enriched) - 1)),
                   enriched[Len(enriched)])

\* enriched.sort(key=lambda pair: pair[0], reverse=True)
RECURSIVE SortDesc(_)
SortDesc(enriched) ==
    IF enriched = <<>> THEN <<>>
    ELSE InsertDesc(SortDesc(SubSeq(enriched, 1, Len(enriched) - 1)),
                    enriched[Len(enriched)])

\* select_latest_source_folders: raises for latest < 1 and for the first
\* entry whose name the parser rejects; otherwise the first `latest` entries
\* of the date-descending stable sort.
SelectLatestSourceFolders(source_folders, latest) ==
    IF latest < 1 THEN ValueError
    ELSE IF \E i \in 1..Len(source_folders) :
                Raised(ParseSourceFolderName(source_folders[i].folder_name))
    THEN ValueError
    ELSE LET enriched == [i \in 1..Len(source_folders) |->
                            <<ParseSourceFolderName(source_folders[i].folder_name).visit_date,
                              source_folders[i]>>]
             sorted   == SortDesc(enriched)
             kept     == SubSeq(sorted, 1, Min(latest, Len(sorted)))
         IN Returned([k \in 1..Len(kept) |-> kept[k][2]])

-----------------------------------------------------------------------------
(* Listings given to the selection.                                        *)

\* Longest listing of the input root tried.
MaxChildren == 3
\* Largest --latest tried.
MaxLatest == 3

Child(id, name, mime) == [id |-> id, name |-> name, mimeType |-> mime]

\* Children the input root may hold: dated folders (two share a date, two
\* share a name), a folder with a padded name, folders the parser rejects,
\* an image file with a well-formed name and a folder without an id.
ChildPool ==
    { Child(<<97>>, <<50, 48, 50, 54, 48, 50, 49, 48, 95, 65>>, DRIVE_FOLDER_MIME_TYPE),
      Child(<<98>>, <<50, 48, 50, 54, 48, 50, 49, 52, 95, 66>>, DRIVE_FOLDER_MIME_TYPE),
      Child(<<99>>, <<50, 48, 50, 54, 48, 50, 49, 48, 95, 67>>, DRIVE_FOLDER_MIME_TYPE),
      Child(<<100>>, <<50, 48, 50, 54, 48, 50, 49, 52, 95, 66>>, DRIVE_FOLDER_MIME_TYPE),
      Child(<<101>>, <<32, 50, 48, 50, 54, 48, 50, 49, 50, 95, 69, 32>>, DRIVE_FOLDER_MIME_TYPE),
      Child(<<102>>, <<110, 111, 116, 101, 115>>, DRIVE_FOLDER_MIME_TYPE),
      Child(<<103>>, <<50, 48, 50, 54, 48, 50, 51, 48, 95, 71>>, DRIVE_FOLDER_MIME_TYPE),
      Child(<<104>>, <<50, 48, 50, 54, 48, 50, 49, 53, 95, 72>>, MIME_JPEG),
      Child(<<>>, <<50, 48, 50, 54, 48, 50, 49, 54, 95, 73>>, DRIVE_FOLDER_MIME_TYPE) }

\* Listings: no child twice.
Listings ==
    {l \in SeqsUpTo(ChildPool, MaxChildren) :
        \A i, j \in 1..Len(l) : i # j => l[i] # l[j]}

\* The entries as a caller that filters nothing would pass them on.
AsSourceFolders(children) ==
    [i \in 1..Len(children) |->
        [folder_id |-> children[i].id, folder_name |-> children[i].name]]

\* The listing and --latest are drawn at the start.
SelectInit ==
    /\ call \in {[fn |-> "selection", children |-> c, latest |-> n] :
                    c \in Listings, n \in 0..MaxLatest}
    /\ result = NoResult
    /\ PipelineIdle

\* _run_stage_1, lines 694-701: list, fail on an empty pool, select
\* (parse_args has rejected latest < 1).
SelectFromListing ==
    /\ call.fn = "selection"
    /\ call.latest >= 1
    /\ LET source_folders == ListSourceFolders(call.children)
       IN /\ call' = [fn |-> "stage_1_selection", children |-> call.children,
                      source_folders |-> source_folders, latest |-> call.latest]
          /\ result' = IF source_folders = <<>> THEN RuntimeError
                       ELSE SelectLatestSourceFolders(source_folders, call.latest)
    /\ UNCHANGED pipelineVars

\* select_latest_source_folders called on entries nobody filtered.
SelectDirect ==
    /\ call.fn = "selection"
    /\ LET source_folders == AsSourceFolders(call.children)
       IN /\ call' = [fn |-> "select_latest_source_folders",
                      children |-> call.children,
                      source_folders |-> source_folders, latest |-> call.latest]
          /\ result' = SelectLatestSourceFolders(source_folders, call.latest)
    /\ UNCHANGED pipelineVars

\* select_latest_source_folders applied to what a selection returned.
SelectAgain ==
    /\ call.fn \in {"stage_1_selection", "select_latest_source_folders"}
    /\ ~Raised(result)
    /\ \E latest \in 1..MaxLatest :
        /\ call' = [fn |-> "select_again", children |-> call.children,
                    source_folders |-> result.value, latest |-> latest]
        /\ result' = SelectLatestSourceFolders(result.value, latest)
    /\ UNCHANGED pipelineVars

SelectNext == SelectFromListing \/ SelectDirect \/ SelectAgain

SpecSelect == SelectInit /\ [][SelectNext]_vars

-----------------------------------------------------------------------------
(* Properties of the selection.                                            *)

\* The date a well-formed name starts with, as a number.
DateNumber(folder_name) == ToInt(SubSeq(folder_name, 1, 8))

\* Place of pool[i] in the date-descending order that keeps discovery order
\* among equal dates: one more than the number of entries that go before it.
RankDesc(pool, i) ==
    1 + Cardinality({j \in 1..Len(pool) :
            \/ DateNumber(pool[j].folder_name) > DateNumber(pool[i].folder_name)
            \/ /\ DateNumber(pool[j].folder_name) = DateNumber(pool[i].folder_name)
               /\ j < i})

AllParseable(pool) ==
    \A i \in 1..Len(pool) : ~Raised(ParseSourceFolderName(pool[i].folder_name))

IsSelectCall ==
    call.fn \in {"stage_1_selection", "select_latest_source_folders", "select_again"}

\* C5: select_latest_source_folders(folders, n) with n >= 1 on valid folders
\* returns min(n, number of folders) entries, the k-th being the folder of
\* rank k when ordered by visit_date descending with equal dates kept in
\* input order.
C5_SelectLatestOrder ==
    (IsSelectCall /\ call.latest >= 1 /\ call.source_folders # <<>>
        /\ AllParseable(call.source_folders))
    => /\ ~Raised(result)
       /\ Len(result.value) = Min(call.latest, Len(call.source_folders))
       /\ \A k \in 1..Len(result.value) :
            \E i \in 1..Len(call.source_folders) :
                /\ RankDesc(call.source_folders, i) = k
                /\ result.value[k] = call.source_folders[i]

\* C5 witness: three valid folders, two of them with the same date, cut to
\* the latest two, the tied pair split by the cut.
C5_Witness ==
    /\ call.fn = "stage_1_selection"
    /\ call.latest = 2
    /\ Len(call.source_folders) = 3
    /\ \E i, j \in 1..3 :
        /\ i < j
        /\ DateNumber(call.source_folders[i].folder_name)
             = DateNumber(call.source_folders[j].folder_name)
        /\ call.source_folders[i].folder_name # call.source_folders[j].folder_name
    /\ ~Raised(result)
    /\ Len(result.value) = 2

\* Children of the listing that are candidate folders in the sense of the
\* specification: folder-typed, with an id, and a name the parser accepts.
IsCandidate(child) ==
    /\ child.mimeType = DRIVE_FOLDER_MIME_TYPE
    /\ child.id # <<>>
    /\ ~Raised(ParseSourceFolderName(Strip(child.name)))

HasUnparseable(pool) ==
    \E i \in 1..Len(pool) : Raised(ParseSourceFolderName(pool[i].folder_name))

\* C6 as stated: select_latest_source_folders, given entries some of which
\* have unparseable names, does not raise and selects among the parseable.
C6_Original ==
    (call.fn = "select_latest_source_folders" /\ call.latest >= 1
        /\ HasUnparseable(call.source_folders))
    => ~Raised(result)

\* C6 amended: the unparseable entries are skipped by list_source_folders,
\* so the selection of stage 1 never raises ValueError and returns
\* min(n, number of candidates) candidates (RuntimeError when there is
\* none); select_latest_source_folders itself raises ValueError when an
\* entry it is given has an unparseable name.
C6_SkippedBeforeSelection ==
    /\ call.fn = "stage_1_selection" =>
        LET candidates == {i \in 1..Len(call.children) : IsCandidate(call.children[i])}
        IN IF candidates = {} THEN result = RuntimeError
           ELSE /\ ~Raised(result)
                /\ Len(result.value) = Min(call.latest, Cardinality(candidates))
                /\ \A k \in 1..Len(result.value) :
                     \E i \in candidates :
                        /\ result.value[k].folder_id = call.children[i].id
                        /\ result.value[k].folder_name = Strip(call.children[i].name)
    /\ (call.fn = "select_latest_source_folders"
            /\ HasUnparseable(call.source_folders))
        => result = ValueError

\* C6 witness: a listing with a folder the parser rejects and a dated folder;
\* stage 1 selects the dated one.
C6_Witness ==
    /\ call.fn = "stage_1_selection"
    /\ \E i \in 1..Len(call.children) :
        /\ call.children[i].mimeType = DRIVE_FOLDER_MIME_TYPE
        /\ Raised(ParseSourceFolderName(Strip(call.children[i].name)))
    /\ ~Raised(result)
    /\ Len(result.value) >= 1

IsDateDescending(pool) ==
    \A i, j \in 1..Len(pool) :
        i < j => DateNumber(pool[i].folder_name) >= DateNumber(pool[j].folder_name)

\* C9: selecting again from a selection, with n at least its length, returns
\* it unchanged; selecting with n >= the pool size returns every folder of the
\* pool exactly once, and a pool already in date-descending order unchanged.
C9_SelectIdempotent ==
    /\ (call.fn = "select_again" /\ call.latest >= Len(call.source_folders))
        => result = Returned(call.source_folders)
    /\ (IsSelectCall /\ call.source_folders # <<>>
            /\ AllParseable(call.source_folders)
            /\ call.latest >= Len(call.source_folders))
        => /\ ~Raised(result)
           /\ Len(result.value) = Len(call.source_folders)
           /\ \A i \in 1..Len(call.source_folders) :
                Cardinality({k \in 1..Len(result.value) :
                    result.value[k] = call.source_folders[i]}) = 1
           /\ IsDateDescending(call.source_folders)
                => result.value = call.source_folders

\* C9 witness: a selection of two or more folders, out of date order in the
\* listing, selected again with room for all of them.
C9_Witness ==
    /\ call.fn = "select_again"
    /\ call.latest >= Len(call.source_folders)
    /\ Len(call.source_folders) >= 2
    /\ ~IsDateDescending(AsSourceFolders(call.children))
    /\ ~Raised(result)

-----------------------------------------------------------------------------
(* rules.py: validate_html_document                                        *)

\* "**", "<hr", ".gif", "image/gif"
BANNED_LITERALS ==
    << <<42, 42>>,
       <<60, 104, 114>>,
       <<46, 103, 105, 102>>,
       <<105, 109, 97, 103, 101, 47, 103, 105, 102>> >>

\* The three keywords of rules.py line 9; the last one is "review".
REVIEW_REFERENCE_KEYWORDS ==
    << <<52572, 44540, 32, 47532, 48624>>,
       <<47532, 48624, 50640, 49436>>,
       <<114, 101, 118, 105, 101, 119>> >>

\* EMOJI_PATTERN: U+1F300-1F5FF, U+1F600-1F64F, U+1F680-1F6FF, U+1F900-1F9FF,
\* U+1FA70-1FAFF.
IsEmoji(c) ==
    \/ c \in 127744..128511
    \/ c \in 128512..128591
    \/ c \in 128640..128767
    \/ c \in 129280..129535
    \/ c \in 129648..129791

\* "<html", "<head", "<body"
TAG_HTML == <<60, 104, 116, 109, 108>>
TAG_HEAD == <<60, 104, 101, 97, 100>>
TAG_BODY == <<60, 98, 111, 100, 121>>

\* "missing <html> tag", "missing <head> tag", "missing <body> tag"
MSG_MISSING_HTML == <<109, 105, 115, 115, 105, 110, 103, 32, 60, 104, 116, 109, 108, 62, 32, 116, 97, 103>>
MSG_MISSING_HEAD == <<109, 105, 115, 115, 105, 110, 103, 32, 60, 104, 101, 97, 100, 62, 32, 116, 97, 103>>
MSG_MISSING_BODY == <<109, 105, 115, 115, 105, 110, 103, 32, 60, 98, 111, 100, 121, 62, 32, 116, 97, 103>>
\* "contains banned token: "
MSG_BANNED == <<99, 111, 110, 116, 97, 105, 110, 115, 32, 98, 97, 110, 110, 101, 100, 32, 116, 111, 107, 101, 110, 58, 32>>
\* "contains emoji"
MSG_EMOJI == <<99, 111, 110, 116, 97, 105, 110, 115, 32, 101, 109, 111, 106, 105>>
\* "mentions reviews without recent review data: "
MSG_REVIEW == <<109, 101, 110, 116, 105, 111, 110, 115, 32, 114, 101, 118, 105, 101, 119, 115, 32, 119, 105, 116, 104, 111, 117, 116, 32, 114, 101, 99, 101, 110, 116, 32, 114, 101, 118, 105, 101, 119, 32, 100, 97, 116, 97, 58, 32>>

\* Lines 34-39: one violation for each structural tag that is absent.
StructuralViolations(lowered) ==
    (IF ~Contains(lowered, TAG_HTML) THEN <<MSG_MISSING_HTML>> ELSE <<>>)
    \o (IF ~Contains(lowered, TAG_HEAD) THEN <<MSG_MISSING_HEAD>> ELSE <<>>)
    \o (IF ~Contains(lowered, TAG_BODY) THEN <<MSG_MISSING_BODY>> ELSE <<>>)

\* Variant of the banned-literal loop that stops at the first literal found.
BannedViolationsFirstOnly(lowered) ==
    LET hits == {i \in 1..Len(BANNED_LITERALS) : Contains(lowered, BANNED_LITERALS[i])}
    IN IF hits = {} THEN <<>>
       ELSE <<MSG_BANNED \o BANNED_LITERALS[CHOOSE i \in hits : \A j \in hits : i <= j]>>

\* Lines 41-43: one violation for each banned literal that is present.
BannedViolations(lowered) ==
    Flatten([i \in 1..Len(BANNED_LITERALS) |->
        IF Contains(lowered, BANNED_LITERALS[i])
        THEN <<MSG_BANNED \o BANNED_LITERALS[i]>> ELSE <<>>])

\* Variant of the emoji rule that takes every character from U+2600 on for
\* an emoji.
EmojiViolationsAnySymbol(html_text) ==
    IF \E i \in 1..Len(html_text) : (html_text[i] >= 9728 /\ html_text[i] < 44032)
                                    \/ IsEmoji(html_text[i])
    THEN <<MSG_EMOJI>> ELSE <<>>

\* Lines 45-46: EMOJI_PATTERN.search on the text as given.
EmojiViolations(html_text) ==
    IF \E i \in 1..Len(html_text) : IsEmoji(html_text[i])
    THEN <<MSG_EMOJI>> ELSE <<>>

\* Variant of the review rule without the `break`: one violation for each
\* keyword present.
ReviewViolationsEveryKeyword(lowered, recent_review_count) ==
    IF recent_review_count # 0 THEN <<>>
    ELSE Flatten([i \in 1..Len(REVIEW_REFERENCE_KEYWORDS) |->
            IF Contains(lowered, Lower(REVIEW_REFERENCE_KEYWORDS[i]))
            THEN <<MSG_REVIEW \o REVIEW_REFERENCE_KEYWORDS[i]>> ELSE <<>>])

\* Lines 48-52: with no recent review, the first keyword present, if any.
ReviewViolations(lowered, recent_review_count) ==
    IF recent_review_count # 0 THEN <<>>
    ELSE LET hits == {i \in 1..Len(REVIEW_REFERENCE_KEYWORDS) :
                        Contains(lowered, Lower(REVIEW_REFERENCE_KEYWORDS[i]))}
         IN IF hits = {} THEN <<>>
            ELSE <<MSG_REVIEW
                    \o REVIEW_REFERENCE_KEYWORDS[CHOOSE i \in hits : \A j \in hits : i <= j]>>

\* Variant of the report whose passed looks at the structural tags only.
ValidateHtmlDocumentPassedByStructure(html_text, recent_review_count) ==
    LET lowered    == Lower(html_text)
        violations == StructuralViolations(lowered)
                      \o BannedViolations(lowered)
                      \o EmojiViolations(html_text)
                      \o ReviewViolations(lowered, recent_review_count)
    IN [passed |-> (StructuralViolations(lowered) = <<>>), violations |-> violations]

\* validate_html_document
ValidateHtmlDocument(html_text, recent_review_count) ==
    LET lowered    == Lower(html_text)
        violations == StructuralViolations(lowered)
                      \o BannedViolations(lowered)
                      \o EmojiViolations(html_text)
                      \o ReviewViolations(lowered, recent_review_count)
    IN [passed |-> (violations = <<>>), violations |-> violations]

-----------------------------------------------------------------------------
(* Documents given to the validator.                                       *)

\* Most fragments a document body is put together from.
MaxBodyFragments == 2
\* Largest recent_review_count tried.
MaxReviewCount == 1

\* "x", "*", "**", "<hr>", ".GIF", "image/gif", U+1F600 (an emoji), U+2764
\* (a symbol outside the emoji ranges), "Review", two Korean review phrases
\* and a quoted sentence in a paragraph.
BodyFragments ==
    { <<120>>,
      <<42>>,
      <<42, 42>>,
      <<60, 104, 114, 62>>,
      <<46, 71, 73, 70>>,
      <<105, 109, 97, 103, 101, 47, 103, 105, 102>>,
      <<128512>>,
      <<10084>>,
      <<82, 101, 118, 105, 101, 119>>,
      <<47532, 48624, 50640, 49436>>,
      <<52572, 44540, 32, 47532, 48624>>,
      <<60, 112, 62, 34, 71, 114, 101, 97, 116, 46, 34, 60, 47, 112, 62>> }

\* "<html>", "<HEAD>", "<body>": the opening tags a document may have.
OpeningTags ==
    << <<60, 104, 116, 109, 108, 62>>,
       <<60, 72, 69, 65, 68, 62>>,
       <<60, 98, 111, 100, 121, 62>> >>

Documents ==
    {Flatten([i \in 1..3 |-> IF i \in tags THEN OpeningTags[i] ELSE <<>>])
        \o Flatten(body) :
        tags \in SUBSET (1..3), body \in SeqsUpTo(BodyFragments, MaxBodyFragments)}

RulesInit ==
    /\ call \in {[fn |-> "validate_html_document", html_text |-> d,
                  recent_review_count |-> n] :
                    d \in Documents, n \in 0..MaxReviewCount}
    /\ result = NoResult
    /\ PipelineIdle

CallValidate ==
    /\ call.fn = "validate_html_document"
    /\ result = NoResult
    /\ result' = ValidateHtmlDocument(call.html_text, call.recent_review_count)
    /\ UNCHANGED <<call, pipelineVars>>

RulesNext == CallValidate

SpecRules == RulesInit /\ [][RulesNext]_vars

-----------------------------------------------------------------------------
(* Properties of validate_html_document.                                   *)

\* lit occurs in doc when letter case is ignored.
OccursIgnoringCase(doc, lit) ==
    \E i \in 1..Len(doc) :
        /\ i + Len(lit) - 1 <= Len(doc)
        /\ \A k \in 1..Len(lit) : LowerChar(doc[i + k - 1]) = lit[k]

\* How often v is in the list.
Count(list, v) == Cardinality({i \in 1..Len(list) : list[i] = v})

HasAnyEmoji(doc) == \E i \in 1..Len(doc) : IsEmoji(doc[i])

\* Violations expected of the structural, banned-literal and emoji rules.
ExpectedRuleCount(doc) ==
    Cardinality({t \in {TAG_HTML, TAG_HEAD, TAG_BODY} : ~OccursIgnoringCase(doc, t)})
    + Cardinality({i \in 1..Len(BANNED_LITERALS) : OccursIgnoringCase(doc, BANNED_LITERALS[i])})
    + (IF HasAnyEmoji(doc) THEN 1 ELSE 0)

IsReviewViolation(v) ==
    Len(v) >= Len(MSG_REVIEW) /\ SubSeq(v, 1, Len(MSG_REVIEW)) = MSG_REVIEW

\* C10: validate_html_document reports exactly one violation for each
\* structural tag that is missing, one for each banned literal present
\* (ignoring case) and one when an emoji is present, each if and only if its
\* own condition holds, whatever else fired; the only other violation is
\* the review-reference one; and passed is false when any rule fired.
C10_RulesAccumulate ==
    (call.fn = "validate_html_document" /\ result # NoResult) =>
    LET doc == call.html_text
        v   == result.violations
    IN /\ Count(v, MSG_MISSING_HTML) = (IF OccursIgnoringCase(doc, TAG_HTML) THEN 0 ELSE 1)
       /\ Count(v, MSG_MISSING_HEAD) = (IF OccursIgnoringCase(doc, TAG_HEAD) THEN 0 ELSE 1)
       /\ Count(v, MSG_MISSING_BODY) = (IF OccursIgnoringCase(doc, TAG_BODY) THEN 0 ELSE 1)
       /\ \A i \in 1..Len(BANNED_LITERALS) :
            Count(v, MSG_BANNED \o BANNED_LITERALS[i])
                = (IF OccursIgnoringCase(doc, BANNED_LITERALS[i]) THEN 1 ELSE 0)
       /\ Count(v, MSG_EMOJI) = (IF HasAnyEmoji(doc) THEN 1 ELSE 0)
       /\ Cardinality({i \in 1..Len(v) : ~IsReviewViolation(v[i])}) = ExpectedRuleCount(doc)
       /\ ExpectedRuleCount(doc) > 0 => ~result.passed

\* C10 witness: a document without <body, with .gif and an emoji and nothing
\* else wrong, got exactly three violations and passed = false.
C10_Witness ==
    /\ call.fn = "validate_html_document"
    /\ result # NoResult
    /\ OccursIgnoringCase(call.html_text, TAG_HTML)
    /\ OccursIgnoringCase(call.html_text, TAG_HEAD)
    /\ result.violations
        = <<MSG_MISSING_BODY, MSG_BANNED \o BANNED_LITERALS[3], MSG_EMOJI>>
    /\ ~result.passed

\* C11: in every report validate_html_document returns, passed is true
\* exactly if the list of violations is empty.
C11_PassedIffNoViolations ==
    (call.fn = "validate_html_document" /\ result # NoResult) =>
        (result.passed <=> Len(result.violations) = 0)

\* A report with the emoji violation alone has passed = false.
C11_Witness ==
    /\ call.fn = "validate_html_document"
    /\ result # NoResult
    /\ result.violations = <<MSG_EMOJI>>
    /\ ~result.passed

\* The keywords of the vocabulary that occur in doc, by their place in it.
KeywordsPresent(doc) ==
    {i \in 1..Len(REVIEW_REFERENCE_KEYWORDS) :
        OccursIgnoringCase(doc, REVIEW_REFERENCE_KEYWORDS[i])}

ReviewViolationsOf(report) == SelectSeq(report.violations, IsReviewViolation)

\* C12: with recent_review_count 0 and a keyword of the vocabulary in the
\* document (ignoring case), the report holds exactly one review-reference
\* violation, which names the first keyword of the vocabulary that occurs,
\* and passed is false; with recent_review_count above 0 (and also without
\* any keyword) there is no review-reference violation.
C12_UnsupportedReviewReference ==
    (call.fn = "validate_html_document" /\ result # NoResult) =>
    LET present == KeywordsPresent(call.html_text)
    IN IF call.recent_review_count = 0 /\ present # {}
       THEN /\ ReviewViolationsOf(result)
                = <<MSG_REVIEW \o REVIEW_REFERENCE_KEYWORDS[
                        CHOOSE i \in present : \A j \in present : i <= j]>>
            /\ ~result.passed
       ELSE ReviewViolationsOf(result) = <<>>

\* A document with "Review" before the second Korean keyword and no recent
\* review: the one violation names the Korean keyword, which comes first in
\* the vocabulary.
C12_Witness ==
    /\ call.fn = "validate_html_document"
    /\ result # NoResult
    /\ call.recent_review_count = 0
    /\ KeywordsPresent(call.html_text) = {2, 3}
    /\ \E i \in 1..Len(call.html_text) :
          /\ SubSeq(call.html_text, i, i + 5) = <<82, 101, 118, 105, 101, 119>>
          /\ SubSeq(call.html_text, i + 6, i + 9) = REVIEW_REFERENCE_KEYWORDS[2]
    /\ ReviewViolationsOf(result) = <<MSG_REVIEW \o REVIEW_REFERENCE_KEYWORDS[2]>>
    /\ ~result.passed

\* '<p>"', '"</p>': a paragraph that is one double-quoted sentence
QUOTED_PARAGRAPH_OPEN == <<60, 112, 62>> \o <<34>>
QUOTED_PARAGRAPH_CLOSE == <<34>> \o <<60, 47, 112, 62>>

\* "quoted full-sentence emphasis"
MSG_QUOTED_EMPHASIS == <<113, 117, 111, 116, 101, 100, 32, 102, 117, 108, 108, 45, 115, 101, 110, 116, 101, 110, 99, 101, 32, 101, 109, 112, 104, 97, 115, 105, 115>>

\* doc has a paragraph that consists of a double-quoted text without a quote
\* or a tag inside.
HasQuotedSentenceParagraph(doc) ==
    \E i, j \in 1..Len(doc) :
        /\ i + Len(QUOTED_PARAGRAPH_OPEN) < j
        /\ SubSeq(doc, i, i + Len(QUOTED_PARAGRAPH_OPEN) - 1) = QUOTED_PARAGRAPH_OPEN
        /\ SubSeq(doc, j, j + Len(QUOTED_PARAGRAPH_CLOSE) - 1) = QUOTED_PARAGRAPH_CLOSE
        /\ \A k \in (i + Len(QUOTED_PARAGRAPH_OPEN))..(j - 1) : doc[k] \notin {34, 60, 62}

\* C13 as stated: a document with a paragraph that is a double-quoted
\* sentence gets a violation that mentions "quoted full-sentence emphasis",
\* which is none of the banned-literal violations, and passed = false.
C13_QuotedSentenceFlagged ==
    (/\ call.fn = "validate_html_document"
     /\ result # NoResult
     /\ HasQuotedSentenceParagraph(call.html_text)) =>
        /\ \E i \in 1..Len(result.violations) :
              /\ Contains(result.violations[i], MSG_QUOTED_EMPHASIS)
              /\ ~Contains(result.violations[i], MSG_BANNED)
        /\ ~result.passed

\* The document <html><HEAD><body><p>"Great."</p> with one recent review is
\* reported as passed, without any violation.
C13_Witness ==
    /\ call.fn = "validate_html_document"
    /\ result # NoResult
    /\ call.recent_review_count > 0
    /\ HasQuotedSentenceParagraph(call.html_text)
    /\ result.passed
    /\ result.violations = <<>>

WellFormed(doc, recent_review_count) ==
    /\ \A t \in {TAG_HTML, TAG_HEAD, TAG_BODY} : OccursIgnoringCase(doc, t)
    /\ \A i \in 1..Len(BANNED_LITERALS) : ~OccursIgnoringCase(doc, BANNED_LITERALS[i])
    /\ ~HasAnyEmoji(doc)
    /\ recent_review_count > 0 \/ KeywordsPresent(doc) = {}

-----------------------------------------------------------------------------
(* prompts.py: the default PromptSet (no prompt file). A template is the   *)
(* sequence of its literal texts and replacement fields.                   *)

\* title_template: "{restaurant_name}" and a Korean suffix ("visit record")
title_template == <<
    [kind |-> "field", key |-> "restaurant_name",
     text |-> <<123, 114, 101, 115, 116, 97, 117, 114, 97, 110, 116, 95, 110, 97, 109, 101, 125>>],
    [kind |-> "text", key |-> "",
     text |->
        <<32, 48169, 47928, 32, 44592, 47197>>] >>

\* intro_template: "{visit_date} ... {image_count} ..." (arranged from the photos of the visit)
intro_template == <<
    [kind |-> "field", key |-> "visit_date",
     text |-> <<123, 118, 105, 115, 105, 116, 95, 100, 97, 116, 101, 125>>],
    [kind |-> "text", key |-> "",
     text |->
        <<32, 48169, 47928, 32, 49324, 51652, 32>>],
    [kind |-> "field", key |-> "image_count",
     text |-> <<123, 105, 109, 97, 103, 101, 95, 99, 111, 117, 110, 116, 125>>],
    [kind |-> "text", key |-> "",
     text |->
        <<51109, 51012, 32, 44592, 51456, 51004, 47196, 32, 51221, 47532,
          54664, 49845, 45768, 45796, 46>>] >>

\* scene_summary_template: "... {scene_text} ..."
scene_summary_template == <<
    [kind |-> "text", key |-> "",
     text |->
        <<49324, 51652, 50640, 49436, 32, 54869, 51064, 46108, 32, 51109,
          47732, 51008, 32>>],
    [kind |-> "field", key |-> "scene_text",
     text |-> <<123, 115, 99, 101, 110, 101, 95, 116, 101, 120, 116, 125>>],
    [kind |-> "text", key |-> "",
     text |->
        <<51077, 45768, 45796, 46>>] >>

\* recent_review_template: "... {review_count} ... {summary} ..."
recent_review_template == <<
    [kind |-> "text", key |-> "",
     text |->
        <<52572, 44540, 32, 54, 48, 51068, 32, 44592, 51456, 32, 44277,
          44060, 32, 51032, 44204, 32>>],
    [kind |-> "field", key |-> "review_count",
     text |-> <<123, 114, 101, 118, 105, 101, 119, 95, 99, 111, 117, 110, 116, 125>>],
    [kind |-> "text", key |-> "",
     text |->
        <<44148, 51060, 32, 54869, 51064, 46104, 47728, 44, 32, 50696,
          49884, 47196, 32>>],
    [kind |-> "field", key |-> "summary",
     text |-> <<123, 115, 117, 109, 109, 97, 114, 121, 125>>],
    [kind |-> "text", key |-> "",
     text |->
        <<32, 44057, 51008, 32, 48152, 51025, 51060, 32, 48372, 51077,
          45768, 45796, 46>>] >>

\* observations_prefix (Korean, "photo observation points: ")
observations_prefix ==
    <<49324, 51652, 32, 44288, 52272, 32, 54252, 51064, 53944, 58, 32>>

\* food_guess_prefix (Korean, "food guess: ")
food_guess_prefix ==
    <<51020, 49885, 32, 52628, 51221, 58, 32>>

\* fallback_paragraph (Korean, "composed only within what the photos show")
fallback_paragraph ==
    <<49324, 51652, 50640, 49436, 32, 54869, 51064, 32, 44032, 45733,
      54620, 32, 48276, 50948, 32, 50504, 50640, 49436, 47564, 32, 45236,
      50857, 51012, 32, 44396, 49457, 54664, 49845, 45768, 45796, 46>>

\* missing_info_line (Korean, "restaurant information was not found")
missing_info_line ==
    <<49885, 45817, 32, 44592, 48376, 32, 51221, 48372, 45716, 32, 54869,
      51064, 46104, 51648, 32, 50506, 50500, 32, 49324, 51652, 32, 44592,
      51456, 51004, 47196, 47564, 32, 51221, 47532, 54664, 49845, 45768,
      45796, 46>>

TemplateText(template) == Flatten([i \in 1..Len(template) |-> template[i].text])

\* _format_template: template.format(**kwargs); a replacement field without
\* a keyword argument is a KeyError, and the template is returned as it is.
FormatTemplate(template, kwargs) ==
    IF \E i \in 1..Len(template) :
            template[i].kind = "field" /\ template[i].key \notin DOMAIN kwargs
    THEN TemplateText(template)
    ELSE Flatten([i \in 1..Len(template) |->
            IF template[i].kind = "field" THEN kwargs[template[i].key]
            ELSE template[i].text])

-----------------------------------------------------------------------------
(* pipeline.py: text helpers of the composer                               *)

\* str(n) of a natural number.
RECURSIVE IntToStr(_)
IntToStr(n) == IF n < 10 THEN <<48 + n>>
               ELSE IntToStr(n \div 10) \o <<48 + (n % 10)>>

\* sep.join(list)
RECURSIVE Join(_, _)
Join(sep, list) ==
    IF list = <<>> THEN <<>>
    ELSE IF Len(list) = 1 THEN list[1]
    ELSE list[1] \o sep \o Join(sep, Tail(list))

StartsWith(s, prefix) ==
    Len(s) >= Len(prefix) /\ SubSeq(s, 1, Len(prefix)) = prefix

\* s.replace(old, new) for a non-empty old: occurrences are replaced from the
\* left, without overlap. ReplaceFrom handles s from position `from` on: up to
\* the first occurrence, the replacement, then the rest behind the occurrence.
RECURSIVE ReplaceFrom(_, _, _, _)
ReplaceFrom(s, old, new, from) ==
    LET hits == {i \in from..(Len(s) - Len(old) + 1) :
                    SubSeq(s, i, i + Len(old) - 1) = old}
    IN IF hits = {} THEN SubSeq(s, from, Len(s))
       ELSE LET i == CHOOSE h \in hits : \A g \in hits : h <= g
            IN SubSeq(s, from, i - 1) \o new
               \o ReplaceFrom(s, old, new, i + Len(old))

Replace(s, old, new) == ReplaceFrom(s, old, new, 1)

\* EMOJI_PATTERN.sub("", s)
RemoveEmoji(s) == SelectSeq(s, LAMBDA c : ~IsEmoji(c))

DOUBLE_QUOTE == 34

\* "hr", ".img", "image": what the sanitizer puts in place of banned literals.
SANITIZED_HR == <<104, 114>>
SANITIZED_GIF == <<46, 105, 109, 103>>
SANITIZED_IMAGE_GIF == <<105, 109, 97, 103, 101>>

\* _sanitize_text: the replacements one after the other, then strip().
SanitizeText(value) ==
    LET s1 == Replace(value, BANNED_LITERALS[1], <<>>)
        s2 == Replace(s1, <<DOUBLE_QUOTE>>, <<>>)
        s3 == Replace(s2, BANNED_LITERALS[2], SANITIZED_HR)
        s4 == Replace(s3, BANNED_LITERALS[3], SANITIZED_GIF)
        s5 == Replace(s4, BANNED_LITERALS[4], SANITIZED_IMAGE_GIF)
        s6 == RemoveEmoji(s5)
    IN Strip(s6)

(* pipeline.py, _sanitize_text as a function of its own: the texts are made *)
(* of up to MaxSanitizePieces pieces, the banned literals and their parts   *)
(* among them.                                                              *)
MaxSanitizePieces == 3

\* U+1F600, inside the second range of EMOJI_PATTERN.
GRINNING_FACE == <<128512>>

SanitizePieces ==
    {<<42>>, <<DOUBLE_QUOTE>>, <<60>>, <<60, 104, 114>>, <<46>>, <<103, 105, 102>>, <<46, 103, 105, 102>>,
     <<105, 109, 97, 103, 101, 47>>, <<105, 109, 97, 103, 101, 47, 103, 105, 102>>, GRINNING_FACE, <<32>>, <<97>>}

SanitizeInputs == {Flatten(ps) : ps \in SeqsUpTo(SanitizePieces, MaxSanitizePieces)}

SanitizeInit ==
    /\ call \in {[fn |-> "_sanitize_text", value |-> s] : s \in SanitizeInputs}
    /\ result = NoResult
    /\ PipelineIdle

\* _sanitize_text(value)
CallSanitize ==
    /\ call.fn = "_sanitize_text"
    /\ result = NoResult
    /\ result' = Returned(SanitizeText(call.value))
    /\ UNCHANGED <<call, pipelineVars>>

\* _sanitize_text applied to what _sanitize_text returned.
SanitizeAgain ==
    /\ call.fn = "_sanitize_text"
    /\ result # NoResult
    /\ call' = [fn |-> "_sanitize_text_again", value |-> result.value]
    /\ result' = Returned(SanitizeText(result.value))
    /\ UNCHANGED pipelineVars

SanitizeNext == CallSanitize \/ SanitizeAgain

SpecSanitize == SanitizeInit /\ [][SanitizeNext]_vars

\* C15 as stated: the sanitizer is idempotent, sanitizing a sanitized text
\* gives the same text back.
C15_SanitizeIdempotent ==
    call.fn = "_sanitize_text_again" => result.value = call.value

\* The once-sanitized text "**" (from *"* or from two asterisks around an
\* emoji) is sanitized to the empty text by the second pass.
C15_Witness ==
    /\ call.fn = "_sanitize_text_again"
    /\ call.value = BANNED_LITERALS[1]
    /\ result.value = <<>>

\* The rules' banned-literal and emoji violations of a text standing alone.
BannedOrEmojiViolations(text) ==
    BannedViolations(Lower(text)) \o EmojiViolations(text)

\* C16 as stated: what the sanitizer returns holds none of the banned
\* literals, no emoji and no double quote, and so the rules report no
\* banned-literal and no emoji violation for it.
C16_SanitizedHasNoBannedToken ==
    (call.fn = "_sanitize_text" /\ result # NoResult) =>
        /\ \A i \in 1..Len(BANNED_LITERALS) : ~Contains(result.value, BANNED_LITERALS[i])
        /\ \A k \in 1..Len(result.value) :
              ~IsEmoji(result.value[k]) /\ result.value[k] # DOUBLE_QUOTE
        /\ BannedOrEmojiViolations(result.value) = <<>>

\* "." + U+1F600 + "gif" is sanitized to ".gif": the emoji is removed after the
\* replacement of ".gif" has been done.
C16_Witness ==
    /\ call.fn = "_sanitize_text"
    /\ call.value = <<46>> \o GRINNING_FACE \o <<103, 105, 102>>
    /\ result # NoResult
    /\ result.value = BANNED_LITERALS[3]
    /\ BannedOrEmojiViolations(result.value) # <<>>

\* _trim_text(value, max_len)
TrimText(value, max_len) ==
    LET cleaned == Replace(Strip(value), <<NEWLINE>>, <<32>>)
    IN IF Len(cleaned) <= max_len THEN cleaned
       ELSE RStrip(SubSeq(cleaned, 1, max_len)) \o <<46, 46, 46>>

\* _take_non_empty on a list of strings
TakeNonEmpty(values) ==
    LET kept == SelectSeq(values, LAMBDA v : Strip(v) # <<>>)
    IN [i \in 1..Len(kept) |-> Strip(kept[i])]

\* _unique_limited: the first `limit` distinct trimmed non-empty values.
RECURSIVE UniqueLimitedFrom(_, _, _)
UniqueLimitedFrom(values, limit, acc) ==
    IF values = <<>> THEN acc
    ELSE LET cleaned == Strip(Head(values))
         IN IF cleaned = <<>> \/ cleaned \in Range(acc)
            THEN UniqueLimitedFrom(Tail(values), limit, acc)
            ELSE IF Len(acc) + 1 >= limit THEN Append(acc, cleaned)
            ELSE UniqueLimitedFrom(Tail(values), limit, Append(acc, cleaned))

UniqueLimited(values, limit) == UniqueLimitedFrom(values, limit, <<>>)

\* html.escape(s) with quote=True
EscapeChar(c) ==
    IF c = 38 THEN <<38, 97, 109, 112, 59>>
    ELSE IF c = 60 THEN <<38, 108, 116, 59>>
    ELSE IF c = 62 THEN <<38, 103, 116, 59>>
    ELSE IF c = 34 THEN <<38, 113, 117, 111, 116, 59>>
    ELSE IF c = 39 THEN <<38, 35, 120, 50, 55, 59>>
    ELSE <<c>>

Escape(s) == Flatten([i \in 1..Len(s) |-> EscapeChar(s[i])])

-----------------------------------------------------------------------------
(* places_client.py and vision_client.py: the records stage 4 reads. An    *)
(* optional value is a sequence of length 0 (None) or 1.                   *)

None == <<>>
Some(x) == <<x>>

\* RestaurantInfo(found=False, recent_reviews_cutoff_days=cutoff_days)
NotFoundInfo(cutoff_days) ==
    [found |-> FALSE, place_id |-> <<>>, name |-> <<>>, address |-> <<>>,
     opening_hours |-> <<>>, rating |-> None, user_ratings_total |-> None,
     maps_url |-> <<>>, website |-> <<>>, recent_reviews |-> <<>>,
     recent_reviews_cutoff_days |-> cutoff_days]

\* "vision provider not configured"
RAW_NOT_CONFIGURED ==
    <<118, 105, 115, 105, 111, 110, 32, 112, 114, 111, 118, 105, 100, 101,
      114, 32, 110, 111, 116, 32, 99, 111, 110, 102, 105, 103, 117, 114,
      101, 100>>

\* "vision analyze failed: "
RAW_ANALYZE_FAILED ==
    <<118, 105, 115, 105, 111, 110, 32, 97, 110, 97, 108, 121, 122, 101,
      32, 102, 97, 105, 108, 101, 100, 58, 32>>

\* "other"
SCENE_OTHER == <<111, 116, 104, 101, 114>>

-----------------------------------------------------------------------------
(* pipeline.py: _build_info_lines, _build_paragraphs; writer.py            *)

\* Korean "address: "
INFO_ADDRESS ==
    <<51452, 49548, 58, 32>>
\* Korean "opening hours: "
INFO_HOURS ==
    <<50689, 50629, 49884, 44036, 58, 32>>
\* Korean "rating: "
INFO_RATING ==
    <<54217, 51216, 32, 51221, 48372, 58, 32>>
\* Korean "... ratings)", closing the count
INFO_RATING_COUNT ==
    <<44148, 32, 44592, 51456, 41>>
\* Korean "website: "
INFO_WEBSITE ==
    <<50937, 49324, 51060, 53944, 58, 32>>
\* Korean "map: "
INFO_MAP ==
    <<51648, 46020, 58, 32>>
\* Korean counter for photos
SCENE_COUNT_UNIT ==
    <<51109>>

\* f"{rating}" of a float; ratings are carried in tenths (45 is 4.5).
FormatRating(tenths) == IntToStr(tenths \div 10) \o <<46>> \o IntToStr(tenths % 10)

\* _build_info_lines
BuildInfoLines(restaurant_info) ==
    LET lines ==
          IF restaurant_info.found THEN
              (IF restaurant_info.address # <<>>
               THEN <<INFO_ADDRESS \o restaurant_info.address>> ELSE <<>>)
              \o (IF restaurant_info.opening_hours # <<>>
                  THEN <<INFO_HOURS \o Join(<<44, 32>>,
                            SubSeq(restaurant_info.opening_hours, 1,
                                   Min(2, Len(restaurant_info.opening_hours))))>>
                  ELSE <<>>)
              \o (IF restaurant_info.rating # None
                  THEN <<INFO_RATING \o FormatRating(restaurant_info.rating[1])
                         \o (IF restaurant_info.user_ratings_total # None
                             THEN <<32, 40>>
                                  \o IntToStr(restaurant_info.user_ratings_total[1])
                                  \o INFO_RATING_COUNT
                             ELSE <<>>)>>
                  ELSE <<>>)
              \o (IF restaurant_info.website # <<>>
                  THEN <<INFO_WEBSITE \o restaurant_info.website>> ELSE <<>>)
              \o (IF restaurant_info.maps_url # <<>>
                  THEN <<INFO_MAP \o restaurant_info.maps_url>> ELSE <<>>)
          ELSE <<missing_info_line>>
        kept == SelectSeq(lines, LAMBDA line : Strip(line) # <<>>)
    IN [i \in 1..Len(kept) |-> SanitizeText(kept[i])]

\* scene_counter[scene] = scene_counter.get(scene, 0) + 1 on a dict kept as
\* the sequence of its items in insertion order.
CountScene(counter, scene) ==
    IF \E i \in 1..Len(counter) : counter[i][1] = scene
    THEN [i \in 1..Len(counter) |->
            IF counter[i][1] = scene THEN <<scene, counter[i][2] + 1>> ELSE counter[i]]
    ELSE Append(counter, <<scene, 1>>)

RECURSIVE SceneCounter(_, _)
SceneCounter(results, counter) ==
    IF results = <<>> THEN counter
    ELSE LET r == Head(results)
         IN IF r.analysis = None THEN SceneCounter(Tail(results), counter)
            ELSE LET stripped == Strip(r.analysis[1].scene_type)
                     scene    == IF stripped = <<>> THEN SCENE_OTHER ELSE stripped
                 IN SceneCounter(Tail(results), CountScene(counter, scene))

\* sorted(items, key=count, reverse=True): stable, greatest count first.
RECURSIVE InsertByCountDesc(_, _)
InsertByCountDesc(sorted, item) ==
    IF sorted = <<>> THEN <<item>>
    ELSE IF Head(sorted)[2] < item[2] THEN <<item>> \o sorted
    ELSE <<Head(sorted)>> \o InsertByCountDesc(Tail(sorted), item)

RECURSIVE SortByCountDesc(_)
SortByCountDesc(items) ==
    IF items = <<>> THEN <<>>
    ELSE InsertByCountDesc(SortByCountDesc(SubSeq(items, 1, Len(items) - 1)),
                           items[Len(items)])

\* The analysed results, in order.
Analysed(results) == SelectSeq(results, LAMBDA r : r.analysis # None)

\* Variant of the composer that leaves a lone intro paragraph alone.
AppendNoFallback(paragraphs) == paragraphs

\* Lines 1031-1032: `if len(paragraphs) == 1` the fallback paragraph is appended.
AppendFallback(paragraphs) ==
    IF Len(paragraphs) = 1 THEN Append(paragraphs, fallback_paragraph)
    ELSE paragraphs

\* _build_paragraphs
BuildParagraphs(manifest, restaurant_info, results) ==
    LET intro == FormatTemplate(intro_template,
                    [visit_date |-> manifest.visit_date,
                     image_count |-> IntToStr(Len(manifest.images)),
                     restaurant_name |-> manifest.restaurant_name])
        analysed      == Analysed(results)
        scene_counter == SceneCounter(results, <<>>)
        observations  == Flatten([i \in 1..Len(analysed) |->
                            TakeNonEmpty(analysed[i].analysis[1].observations)])
        food_guesses  == Flatten([i \in 1..Len(analysed) |->
                            TakeNonEmpty(analysed[i].analysis[1].food_guess)])
        sorted_scenes == SortByCountDesc(scene_counter)
        top_scenes    == SubSeq(sorted_scenes, 1, Min(3, Len(sorted_scenes)))
        scene_text    == Join(<<44, 32>>, [i \in 1..Len(top_scenes) |->
                            top_scenes[i][1] \o <<32>> \o IntToStr(top_scenes[i][2])
                            \o SCENE_COUNT_UNIT])
        scene_part ==
            IF scene_counter # <<>>
            THEN <<FormatTemplate(scene_summary_template,
                        [scene_text |-> scene_text,
                         restaurant_name |-> manifest.restaurant_name])>>
            ELSE <<>>
        observation_part ==
            IF observations # <<>>
            THEN <<observations_prefix
                    \o Join(<<32, 47, 32>>, UniqueLimited(observations, 3))>>
            ELSE <<>>
        food_part ==
            IF food_guesses # <<>>
            THEN <<food_guess_prefix
                    \o Join(<<44, 32>>, UniqueLimited(food_guesses, 3))>>
            ELSE <<>>
        review_part ==
            IF restaurant_info.recent_reviews # <<>>
            THEN LET latest  == restaurant_info.recent_reviews[1]
                     summary == TrimText(latest.text, 90)
                 IN IF summary # <<>>
                    THEN <<FormatTemplate(recent_review_template,
                              [review_count |-> IntToStr(Len(restaurant_info.recent_reviews)),
                               summary |-> summary,
                               restaurant_name |-> manifest.restaurant_name])>>
                    ELSE <<>>
            ELSE <<>>
        composed   == <<intro>> \o scene_part \o observation_part \o food_part
                      \o review_part
        paragraphs == AppendFallback(composed)
        kept       == SelectSeq(paragraphs, LAMBDA item : Strip(item) # <<>>)
    IN [i \in 1..Len(kept) |-> SanitizeText(kept[i])]

\* writer.py lines 29-34: '<!doctype html><html lang="ko"><head><meta ...><meta ...><title>'
HTML_DOCTYPE_TO_TITLE ==
    <<60, 33, 100, 111, 99, 116, 121, 112, 101, 32, 104, 116, 109, 108, 62,
      60, 104, 116, 109, 108, 32, 108, 97, 110, 103, 61, 34, 107, 111, 34,
      62, 60, 104, 101, 97, 100, 62, 60, 109, 101, 116, 97, 32, 99, 104,
      97, 114, 115, 101, 116, 61, 34, 117, 116, 102, 45, 56, 34, 62, 60,
      109, 101, 116, 97, 32, 110, 97, 109, 101, 61, 34, 118, 105, 101, 119,
      112, 111, 114, 116, 34, 32, 99, 111, 110, 116, 101, 110, 116, 61, 34,
      119, 105, 100, 116, 104, 61, 100, 101, 118, 105, 99, 101, 45, 119,
      105, 100, 116, 104, 44, 32, 105, 110, 105, 116, 105, 97, 108, 45,
      115, 99, 97, 108, 101, 61, 49, 34, 62, 60, 116, 105, 116, 108, 101,
      62>>
\* '</title></head><body><article><h1>'
HTML_TITLE_TO_H1 ==
    <<60, 47, 116, 105, 116, 108, 101, 62, 60, 47, 104, 101, 97, 100, 62,
      60, 98, 111, 100, 121, 62, 60, 97, 114, 116, 105, 99, 108, 101, 62,
      60, 104, 49, 62>>
\* '</h1><p>'
HTML_H1_TO_DATE ==
    <<60, 47, 104, 49, 62, 60, 112, 62>>
\* '</p>'
HTML_P_CLOSE ==
    <<60, 47, 112, 62>>
\* '<p>'
HTML_P_OPEN ==
    <<60, 112, 62>>
\* '<li>'
HTML_LI_OPEN ==
    <<60, 108, 105, 62>>
\* '</li>'
HTML_LI_CLOSE ==
    <<60, 47, 108, 105, 62>>
\* '<section><h2>' Korean "basic information" '</h2><ul>'
HTML_INFO_OPEN ==
    <<60, 115, 101, 99, 116, 105, 111, 110, 62, 60, 104, 50, 62, 44592,
      48376, 32, 51221, 48372, 60, 47, 104, 50, 62, 60, 117, 108, 62>>
\* '</ul></section>'
HTML_INFO_CLOSE ==
    <<60, 47, 117, 108, 62, 60, 47, 115, 101, 99, 116, 105, 111, 110, 62>>
\* '<p></p>'
HTML_EMPTY_P ==
    <<60, 112, 62, 60, 47, 112, 62>>
\* '</article></body></html>'
HTML_END ==
    <<60, 47, 97, 114, 116, 105, 99, 108, 101, 62, 60, 47, 98, 111, 100,
      121, 62, 60, 47, 104, 116, 109, 108, 62>>

\* render_review_html
RenderReviewHtml(title, restaurant_name, visit_date, paragraphs, info_lines) ==
    LET safe_info  == SelectSeq(info_lines, LAMBDA item : Strip(item) # <<>>)
        safe_paras == SelectSeq(paragraphs, LAMBDA item : Strip(item) # <<>>)
        info_items == Flatten([i \in 1..Len(safe_info) |->
                        HTML_LI_OPEN \o Escape(safe_info[i]) \o HTML_LI_CLOSE])
        info_html  == IF safe_info # <<>>
                      THEN HTML_INFO_OPEN \o info_items \o HTML_INFO_CLOSE
                      ELSE <<>>
        para_html  == Flatten([i \in 1..Len(safe_paras) |->
                        HTML_P_OPEN \o Escape(safe_paras[i]) \o HTML_P_CLOSE])
        body_html  == IF para_html # <<>> THEN para_html ELSE HTML_EMPTY_P
    IN HTML_DOCTYPE_TO_TITLE \o Escape(title) \o HTML_TITLE_TO_H1
       \o Escape(restaurant_name) \o HTML_H1_TO_DATE \o Escape(visit_date)
       \o HTML_P_CLOSE \o info_html \o body_html \o HTML_END

\* _build_review_html
BuildReviewHtml(manifest, restaurant_info, results) ==
    RenderReviewHtml(
        FormatTemplate(title_template,
                       [restaurant_name |-> manifest.restaurant_name]),
        manifest.restaurant_name,
        manifest.visit_date,
        BuildParagraphs(manifest, restaurant_info, results),
        BuildInfoLines(restaurant_info))

-----------------------------------------------------------------------------
(* Dictionaries (Python dict): pairs in insertion order; assigning to a key *)
(* that is present replaces its value and keeps its place.                  *)

DictHas(d, k) == \E i \in 1..Len(d) : d[i].key = k

\* d[k] = v
DictSet(d, k, v) ==
    IF DictHas(d, k)
    THEN [i \in 1..Len(d) |-> IF d[i].key = k THEN [key |-> k, value |-> v] ELSE d[i]]
    ELSE Append(d, [key |-> k, value |-> v])

\* d.get(k, default)
DictGet(d, k, default) ==
    IF DictHas(d, k) THEN d[CHOOSE i \in 1..Len(d) : d[i].key = k].value
    ELSE default

-----------------------------------------------------------------------------
(* Stage 1: image collection and manifests (src/src/scan_folders.py).      *)

\* ".jpg", ".jpeg", ".png", ".webp"
SUPPORTED_IMAGE_EXTENSIONS ==
    { <<46, 106, 112, 103>>,
      <<46, 106, 112, 101, 103>>,
      <<46, 112, 110, 103>>,
      <<46, 119, 101, 98, 112>> }

EndsWith(s, suffix) ==
    /\ Len(s) >= Len(suffix)
    /\ SubSeq(s, Len(s) - Len(suffix) + 1, Len(s)) = suffix

\* Variant of is_supported_image_filename that compares the name as it is.
IsSupportedImageFilenameCaseSensitive(filename) ==
    \E ext \in SUPPORTED_IMAGE_EXTENSIONS : EndsWith(filename, ext)

\* is_supported_image_filename
IsSupportedImageFilename(filename) ==
    LET lowered == Lower(filename)
    IN \E ext \in SUPPORTED_IMAGE_EXTENSIONS : EndsWith(lowered, ext)

\* list_children of a folder below the input root: the entries the storage
\* holds for that id.
ListChildren(st, folder_id) ==
    LET hits == SelectSeq(st.folders, LAMBDA f : f.id = folder_id)
    IN IF hits = <<>> THEN <<>> ELSE hits[1].children

\* One pass of the loop of collect_images_recursive: pop the last folder of
\* the stack, push its sub-folders in listing order, collect its supported
\* images. Nothing records the folders already visited.
CollectPass(st, stack, collected) ==
    LET current_folder_id == stack[Len(stack)]
        rest     == SubSeq(stack, 1, Len(stack) - 1)
        listed   == ListChildren(st, current_folder_id)
        entries  == [i \in 1..Len(listed) |->
                       [id       |-> Strip(listed[i].id),
                        name     |-> Strip(listed[i].name),
                        mimeType |-> Strip(listed[i].mimeType)]]
        usable   == SelectSeq(entries, LAMBDA e :
                       e.id # <<>> /\ e.name # <<>> /\ e.mimeType # <<>>)
        pushed   == SelectSeq(usable, LAMBDA e :
                       e.mimeType = DRIVE_FOLDER_MIME_TYPE)
        images   == SelectSeq(usable, LAMBDA e :
                       /\ e.mimeType # DRIVE_FOLDER_MIME_TYPE
                       /\ IsSupportedImageFilename(e.name))
    IN [stack     |-> rest \o [i \in 1..Len(pushed) |-> pushed[i].id],
        collected |-> collected \o [i \in 1..Len(images) |->
                                      [file_id   |-> images[i].id,
                                       name      |-> images[i].name,
                                       mime_type |-> images[i].mimeType]]]

\* `while stack:`
RECURSIVE CollectFrom(_, _, _)
CollectFrom(st, stack, collected) ==
    IF stack = <<>> THEN collected
    ELSE LET pass == CollectPass(st, stack, collected)
         IN CollectFrom(st, pass.stack, pass.collected)

\* One step of collected.sort(key=lambda item: item.name.lower()): the image
\* goes behind every image whose lowered name is not greater than its own.
RECURSIVE InsertByName(_, _)
InsertByName(sorted, image) ==
    IF sorted = <<>> THEN <<image>>
    ELSE IF StrLess(Lower(image.name), Lower(Head(sorted).name))
    THEN <<image>> \o sorted
    ELSE <<Head(sorted)>> \o InsertByName(Tail(sorted), image)

RECURSIVE SortByName(_)
SortByName(collected) ==
    IF collected = <<>> THEN <<>>
    ELSE InsertByName(SortByName(SubSeq(collected, 1, Len(collected) - 1)),
                      collected[Len(collected)])

\* collect_images_recursive
CollectImagesRecursive(st, folder_id) ==
    SortByName(CollectFrom(st, <<folder_id>>, <<>>))

\* build_manifest (the name has passed the parser in list_source_folders)
BuildManifest(source_folder_id, source_folder_name, images) ==
    LET parsed == ParseSourceFolderName(source_folder_name)
    IN [source_folder_id   |-> source_folder_id,
        source_folder_name |-> source_folder_name,
        visit_date         |-> parsed.visit_date,
        restaurant_name    |-> parsed.restaurant_name,
        images             |-> images]

FileNotFoundError == [raised |-> "FileNotFoundError"]

\* Variant of the loop of _run_stage_1 that leaves a folder without images
\* out instead of raising.
RECURSIVE BuildManifestsSkippingEmpty(_, _)
BuildManifestsSkippingEmpty(st, selected) ==
    IF selected = <<>> THEN Returned(<<>>)
    ELSE LET folder == Head(selected)
             images == CollectImagesRecursive(st, folder.folder_id)
             rest   == BuildManifestsSkippingEmpty(st, Tail(selected))
         IN IF images = <<>> THEN rest
            ELSE Returned(<<BuildManifest(folder.folder_id, folder.folder_name, images)>>
                          \o rest.value)

\* The loop of _run_stage_1 over the selected folders: RuntimeError at the
\* first folder without a supported image, else the manifests in order.
RECURSIVE BuildManifests(_, _)
BuildManifests(st, selected) ==
    IF selected = <<>> THEN Returned(<<>>)
    ELSE LET folder == Head(selected)
             images == CollectImagesRecursive(st, folder.folder_id)
         IN IF images = <<>> THEN RuntimeError
            ELSE LET rest == BuildManifests(st, Tail(selected))
                 IN IF Raised(rest) THEN rest
                    ELSE Returned(<<BuildManifest(folder.folder_id,
                                                  folder.folder_name, images)>>
                                  \o rest.value)

\* _run_stage_1 up to the manifests: the listing of the input root (which
\* LocalDriveClient.list_children refuses for a missing folder), the pool,
\* the selection and the manifests.
Stage1Manifests(cfg, st) ==
    IF ~st.root_exists THEN FileNotFoundError
    ELSE LET source_folders == ListSourceFolders(st.children)
         IN IF source_folders = <<>> THEN RuntimeError
            ELSE LET selected == SelectLatestSourceFolders(source_folders, cfg.latest)
                 IN IF Raised(selected) THEN selected
                    ELSE BuildManifests(st, selected.value)

-----------------------------------------------------------------------------
(* Stage 2: restaurant lookup (src/src/places_client.py, JsonPlacesProvider) *)

\* cutoff_days of the lookups of a run
CUTOFF_DAYS == 60

SECONDS_PER_DAY == 24 * 60 * 60

\* int(now_fn().timestamp()) of the run: day 100 of the calendar of the
\* review times below.
NowTs == 100 * SECONDS_PER_DAY

\* JsonPlacesProvider.__init__: entries without a place_id or with a blank
\* name are left out; names are keyed trimmed and lower-cased.
RECURSIVE JsonPlacesProviderFrom(_, _)
JsonPlacesProviderFrom(restaurants, provider) ==
    IF restaurants = <<>> THEN provider
    ELSE LET item     == Head(restaurants)
             place_id == Strip(item.details.place_id)
             key      == Lower(Strip(item.restaurant_name))
         IN IF place_id = <<>> \/ key = <<>>
            THEN JsonPlacesProviderFrom(Tail(restaurants), provider)
            ELSE JsonPlacesProviderFrom(Tail(restaurants),
                    [by_name     |-> DictSet(provider.by_name, key, item.details),
                     by_place_id |-> DictSet(provider.by_place_id, place_id, item.details)])

JsonPlacesProvider(restaurants) ==
    JsonPlacesProviderFrom(restaurants, [by_name |-> <<>>, by_place_id |-> <<>>])

\* JsonPlacesProvider.search_place
SearchPlace(provider, restaurant_name) ==
    LET key == Lower(Strip(restaurant_name))
    IN IF DictHas(provider.by_name, key)
       THEN Some([place_id |-> DictGet(provider.by_name, key, None).place_id])
       ELSE None

\* JsonPlacesProvider.get_place_details
GetPlaceDetails(provider, place_id) ==
    IF DictHas(provider.by_place_id, place_id)
    THEN Some(DictGet(provider.by_place_id, place_id, None))
    ELSE None

\* details of a place the provider has no details for: `or {}`
NoDetails ==
    [place_id |-> <<>>, name |-> <<>>, address |-> <<>>, opening_hours |-> <<>>,
     rating |-> None, user_ratings_total |-> None, maps_url |-> <<>>,
     website |-> <<>>, reviews |-> <<>>]

\* PlacesClient._filter_recent_reviews
FilterRecentReviews(reviews, cutoff_days) ==
    IF reviews = <<>> THEN <<>>
    ELSE IF cutoff_days < 1 THEN <<>>
    ELSE LET cutoff_ts == NowTs - cutoff_days * 24 * 60 * 60
             kept == SelectSeq(reviews, LAMBDA review :
                        review.time # None /\ ~(review.time[1] < cutoff_ts))
         IN [i \in 1..Len(kept) |->
                [time |-> kept[i].time[1], rating |-> kept[i].rating,
                 text |-> kept[i].text, relative_time |-> kept[i].relative_time]]

\* PlacesClient.fetch_restaurant_info; provider is None or Some(provider)
FetchRestaurantInfo(provider, restaurant_name, cutoff_days) ==
    IF provider = None THEN NotFoundInfo(cutoff_days)
    ELSE LET found == SearchPlace(provider[1], restaurant_name)
         IN IF found = None THEN NotFoundInfo(cutoff_days)
            ELSE LET place_id == Strip(found[1].place_id)
                 IN IF place_id = <<>> THEN NotFoundInfo(cutoff_days)
                    ELSE LET got     == GetPlaceDetails(provider[1], place_id)
                             details == IF got = None THEN NoDetails ELSE got[1]
                         IN [found |-> TRUE,
                             place_id |-> place_id,
                             name |-> IF details.name # <<>> THEN details.name
                                      ELSE restaurant_name,
                             address |-> details.address,
                             opening_hours |-> details.opening_hours,
                             rating |-> details.rating,
                             user_ratings_total |-> details.user_ratings_total,
                             maps_url |-> details.maps_url,
                             website |-> details.website,
                             recent_reviews |->
                                 FilterRecentReviews(details.reviews, cutoff_days),
                             recent_reviews_cutoff_days |-> cutoff_days]

-----------------------------------------------------------------------------
(* Stage 3: image analysis (src/src/vision_client.py, JsonVisionProvider)  *)

\* "no vision data for "
WARNING_NO_VISION_DATA ==
    <<110, 111, 32, 118, 105, 115, 105, 111, 110, 32, 100, 97, 116, 97, 32, 102, 111, 114, 32>>

\* JsonVisionProvider.analyze_image: by file id, by name, by lowered name,
\* else the default payload.
AnalyzeImage(images, file_id, image_name) ==
    IF DictHas(images, file_id) THEN DictGet(images, file_id, None)
    ELSE IF DictHas(images, image_name) THEN DictGet(images, image_name, None)
    ELSE IF DictHas(images, Lower(image_name))
    THEN DictGet(images, Lower(image_name), None)
    ELSE [scene_type |-> SCENE_OTHER, observations |-> <<>>, food_guess |-> <<>>,
          ambience_hints |-> <<>>, bloggable_details |-> <<>>,
          warnings |-> <<WARNING_NO_VISION_DATA \o image_name>>]

\* VisionClient.analyze; provider is None or Some(images). The fields of the
\* payload are taken over as they are.
Analyze(provider, file_id, image_name) ==
    IF provider = None
    THEN [file_id |-> file_id, name |-> image_name, analysis |-> None,
          raw |-> Some(RAW_NOT_CONFIGURED)]
    ELSE LET raw_payload == AnalyzeImage(provider[1], file_id, image_name)
         IN [file_id |-> file_id, name |-> image_name,
             analysis |-> Some([scene_type        |-> raw_payload.scene_type,
                                observations      |-> raw_payload.observations,
                                food_guess        |-> raw_payload.food_guess,
                                ambience_hints    |-> raw_payload.ambience_hints,
                                bloggable_details |-> raw_payload.bloggable_details,
                                warnings          |-> raw_payload.warnings]),
             raw |-> None]

-----------------------------------------------------------------------------
(* The runs examined: configurations, input roots and provider data files. *)

Entry(id, name, mime) == [id |-> id, name |-> name, mimeType |-> mime]
Folder(id, children) == [id |-> id, children |-> children]

MIME_PNG   == <<105, 109, 97, 103, 101, 47, 112, 110, 103>>
MIME_WEBP  == <<105, 109, 97, 103, 101, 47, 119, 101, 98, 112>>
MIME_PLAIN == <<116, 101, 120, 116, 47, 112, 108, 97, 105, 110>>

\* 20260210_A: b.PNG, sub/a.jpg, notes.txt and an entry without an id
FolderA == Entry(<<97>>, <<50, 48, 50, 54, 48, 50, 49, 48, 95, 65>>, DRIVE_FOLDER_MIME_TYPE)
\* 20260214_B: c.webp
FolderB == Entry(<<98>>, <<50, 48, 50, 54, 48, 50, 49, 52, 95, 66>>, DRIVE_FOLDER_MIME_TYPE)
\* 20260212_x.gif: d.jpeg
FolderG == Entry(<<103>>, <<50, 48, 50, 54, 48, 50, 49, 50, 95, 120, 46, 103, 105, 102>>, DRIVE_FOLDER_MIME_TYPE)
\* 20260201_E: readme.md and an empty sub-folder
FolderE == Entry(<<101>>, <<50, 48, 50, 54, 48, 50, 48, 49, 95, 69>>, DRIVE_FOLDER_MIME_TYPE)
\* a second folder named 20260214_B: e.jpg, f.jpg
FolderD == Entry(<<100>>, <<50, 48, 50, 54, 48, 50, 49, 52, 95, 66>>, DRIVE_FOLDER_MIME_TYPE)
\* notes: z.jpg
FolderN == Entry(<<110>>, <<110, 111, 116, 101, 115>>, DRIVE_FOLDER_MIME_TYPE)
\* an image file directly below the root, named like a source folder
RootImage == Entry(<<114>>, <<50, 48, 50, 54, 48, 50, 49, 53, 95, 72, 46, 106, 112, 103>>, MIME_JPEG)

\* What the storage lists below each folder.
FolderContents ==
    << Folder(<<97>>,
              << Entry(<<97, 49>>, <<98, 46, 80, 78, 71>>, MIME_PNG),
                 Entry(<<97, 115>>, <<115, 117, 98>>, DRIVE_FOLDER_MIME_TYPE),
                 Entry(<<97, 51>>, <<110, 111, 116, 101, 115, 46, 116, 120, 116>>, MIME_PLAIN),
                 Entry(<<>>, <<108, 111, 115, 116, 46, 106, 112, 103>>, MIME_JPEG) >>),
       Folder(<<97, 115>>,
              << Entry(<<97, 50>>, <<97, 46, 106, 112, 103>>, MIME_JPEG) >>),
       Folder(<<98>>,
              << Entry(<<98, 49>>, <<99, 46, 119, 101, 98, 112>>, MIME_WEBP) >>),
       Folder(<<103>>,
              << Entry(<<103, 49>>, <<100, 46, 106, 112, 101, 103>>, MIME_JPEG) >>),
       Folder(<<101>>,
              << Entry(<<101, 49>>, <<114, 101, 97, 100, 109, 101, 46, 109, 100>>, MIME_PLAIN),
                 Entry(<<101, 115>>, <<101, 109, 112, 116, 121>>, DRIVE_FOLDER_MIME_TYPE) >>),
       Folder(<<101, 115>>, <<>>),
       Folder(<<100>>,
              << Entry(<<100, 49>>, <<102, 46, 106, 112, 103>>, MIME_JPEG),
                 Entry(<<100, 50>>, <<101, 46, 106, 112, 103>>, MIME_JPEG) >>),
       Folder(<<110>>,
              << Entry(<<110, 49>>, <<122, 46, 106, 112, 103>>, MIME_JPEG) >>) >>

\* Listings of the input root, in the order the storage returns them.
RootListings ==
    { <<>>,
      <<FolderN, RootImage>>,
      <<FolderA, FolderB>>,
      <<FolderA, FolderG, FolderB, FolderN>>,
      <<FolderE, FolderA, FolderB>>,
      <<FolderB, FolderD, FolderA>>,
      <<FolderG>>,
      <<FolderE>> }

Storages ==
    {[root_exists |-> TRUE, children |-> c, folders |-> FolderContents] :
        c \in RootListings}
    \cup {[root_exists |-> FALSE, children |-> <<>>, folders |-> <<>>]}

Review(time, rating, text) ==
    [time |-> time, rating |-> rating, text |-> text, relative_time |-> <<>>]

\* The places data file: "A" with a review of ten days ago, one of ninety
\* days ago and one without a time; " b " without reviews; "Closed" without
\* a place_id.
PlacesData ==
    << [restaurant_name |-> <<65>>,
        details |-> [place_id |-> <<112, 97>>, name |-> <<65, 32, 78, 111, 111, 100, 108, 101, 115>>,
                     address |-> <<49, 32, 77, 97, 105, 110, 32, 83, 116>>,
                     opening_hours |-> <<<<77, 111, 110, 32, 57, 45, 49, 56>>>>,
                     rating |-> Some(45), user_ratings_total |-> Some(12),
                     maps_url |-> <<104, 116, 116, 112, 115, 58, 47, 47, 109, 97, 112, 115, 46, 101, 120, 97, 109, 112, 108, 101, 47, 112, 97>>, website |-> <<>>,
                     reviews |-> << Review(Some(90 * SECONDS_PER_DAY), 5, <<71, 114, 101, 97, 116, 32, 110, 111, 111, 100, 108, 101, 115>>),
                                    Review(Some(10 * SECONDS_PER_DAY), 4, <<79, 108, 100, 32, 118, 105, 115, 105, 116>>),
                                    Review(None, 3, <<85, 110, 100, 97, 116, 101, 100>>) >>]],
       [restaurant_name |-> <<32, 98, 32>>,
        details |-> [place_id |-> <<112, 98>>, name |-> <<>>, address |-> <<>>,
                     opening_hours |-> <<>>, rating |-> None,
                     user_ratings_total |-> None, maps_url |-> <<>>,
                     website |-> <<>>, reviews |-> <<>>]],
       [restaurant_name |-> <<67, 108, 111, 115, 101, 100>>,
        details |-> [place_id |-> <<>>, name |-> <<>>, address |-> <<>>,
                     opening_hours |-> <<>>, rating |-> None,
                     user_ratings_total |-> None, maps_url |-> <<>>,
                     website |-> <<>>, reviews |-> <<>>]] >>

Payload(scene_type, observations, food_guess) ==
    [scene_type |-> scene_type, observations |-> observations,
     food_guess |-> food_guess, ambience_hints |-> <<>>,
     bloggable_details |-> <<>>, warnings |-> <<>>]

\* The vision data file: a2 by file id, c.webp by name, b.PNG by lowered name.
VisionData ==
    << [key |-> <<97, 50>>,
        value |-> Payload(<<102, 111, 111, 100>>, <<<<115, 116, 101, 97, 109, 105, 110, 103, 32, 98, 111, 119, 108>>>>, <<<<114, 97, 109, 101, 110>>>>)],
       [key |-> <<99, 46, 119, 101, 98, 112>>,
        value |-> Payload(<<109, 101, 110, 117>>, <<<<104, 97, 110, 100, 119, 114, 105, 116, 116, 101, 110, 32, 109, 101, 110, 117>>>>, <<>>)],
       [key |-> <<98, 46, 112, 110, 103>>,
        value |-> Payload(<<102, 111, 111, 100>>, <<>>, <<<<103, 121, 111, 122, 97>>>>)] >>

\* --places-data / --vision-data: not given, a readable JSON file, or a path
\* that is no file.
ProviderSettings == {"none", "json", "unreadable"}

Configs ==
    [stage : 1..4, write_intermediates : BOOLEAN, latest : 1..MaxLatest,
     places : ProviderSettings, vision : ProviderSettings]

-----------------------------------------------------------------------------
(* run_pipeline (src/src/pipeline.py).                                     *)

\* _build_places_provider without an API key
BuildPlacesProvider(cfg) ==
    IF cfg.places = "none" THEN Returned(None)
    ELSE IF cfg.places = "unreadable" THEN FileNotFoundError
    ELSE Returned(Some(JsonPlacesProvider(PlacesData)))

\* _build_vision_provider without an API key
BuildVisionProvider(cfg) ==
    IF cfg.vision = "none" THEN Returned(None)
    ELSE IF cfg.vision = "unreadable" THEN FileNotFoundError
    ELSE Returned(Some(VisionData))

\* Variant of the gates that lets a stage run only below the ceiling.
StageEnabledBelowCeiling(cfg, k) == cfg.stage > k

\* `if config.stage >= k`
StageEnabled(cfg, k) == cfg.stage >= k

\* Variant that writes the artifact of every stage that runs.
ShouldWriteEveryStage(cfg, k) == cfg.stage >= k

\* should_write_manifest, should_write_restaurant, should_write_vision
ShouldWrite(cfg, k) == cfg.stage = k \/ cfg.write_intermediates

\* ensure_folder(output root, folder_name) and upload_text(that folder,
\* file_name, ...)
Upload(folder_name, file_name) ==
    [folder_name |-> folder_name, file_name |-> file_name]

\* _write_stage_1_outputs: one manifest.json per manifest
WriteStage1Outputs(ms) ==
    [i \in 1..Len(ms) |-> Upload(ms[i].source_folder_name, "manifest.json")]

\* _write_stage_2_outputs, _write_stage_3_outputs: one file per key
WriteByFolder(by_folder, file_name) ==
    [i \in 1..Len(by_folder) |-> Upload(by_folder[i].key, file_name)]

\* The loop of _run_stage_2
RECURSIVE Stage2ByFolder(_, _, _)
Stage2ByFolder(ms, provider, by_folder) ==
    IF ms = <<>> THEN by_folder
    ELSE Stage2ByFolder(Tail(ms), provider,
            DictSet(by_folder, Head(ms).source_folder_name,
                    FetchRestaurantInfo(provider, Head(ms).restaurant_name,
                                        CUTOFF_DAYS)))

\* The loop of _run_stage_3 (JsonVisionProvider does not look at the bytes)
RECURSIVE Stage3ByFolder(_, _, _)
Stage3ByFolder(ms, provider, by_folder) ==
    IF ms = <<>> THEN by_folder
    ELSE LET images == Head(ms).images
         IN Stage3ByFolder(Tail(ms), provider,
                DictSet(by_folder, Head(ms).source_folder_name,
                        [i \in 1..Len(images) |->
                            Analyze(provider, images[i].file_id, images[i].name)]))

\* The loop of _run_stage_4: the reports by folder name and the uploads
RECURSIVE Stage4Loop(_, _, _, _)
Stage4Loop(ms, infos, results_by_folder, acc) ==
    IF ms = <<>> THEN acc
    ELSE LET manifest        == Head(ms)
             folder_name     == manifest.source_folder_name
             restaurant_info == DictGet(infos, folder_name, NotFoundInfo(CUTOFF_DAYS))
             results         == DictGet(results_by_folder, folder_name, <<>>)
             html_text       == BuildReviewHtml(manifest, restaurant_info, results)
             report          == ValidateHtmlDocument(html_text,
                                    Len(restaurant_info.recent_reviews))
         IN Stage4Loop(Tail(ms), infos, results_by_folder,
                [reports |-> DictSet(acc.reports, folder_name, report),
                 uploads |-> acc.uploads
                             \o <<Upload(folder_name, "review.html"),
                                  Upload(folder_name, "rules_report.json")>>])

\* The manifests the loop of _run_stage_1 has built when it gets to the
\* first folder without a supported image.
RECURSIVE BuiltBeforeFailure(_, _)
BuiltBeforeFailure(st, selected) ==
    IF selected = <<>> THEN <<>>
    ELSE LET folder == Head(selected)
             images == CollectImagesRecursive(st, folder.folder_id)
         IN IF images = <<>> THEN <<>>
            ELSE <<BuildManifest(folder.folder_id, folder.folder_name, images)>>
                 \o BuiltBeforeFailure(st, Tail(selected))

\* Variant of a failing stage 1 that writes each manifest as soon as it is
\* built.
WritesOfFailedStage1Eager(cfg, st) ==
    IF ~ShouldWrite(cfg, 1) \/ ~st.root_exists THEN <<>>
    ELSE LET selected == SelectLatestSourceFolders(ListSourceFolders(st.children),
                                                   cfg.latest)
         IN IF Raised(selected) THEN <<>>
            ELSE WriteStage1Outputs(BuiltBeforeFailure(st, selected.value))

\* Lines 694-713 hold no call of ensure_folder or upload_text: a stage 1
\* that raises has written nothing.
WritesOfFailedStage1(cfg, st) == <<>>

\* Variant of the count that takes every report as passed.
PassedCountLenient(rs) == Len(rs)

\* passed_count
PassedCount(rs) == Len(SelectSeq(rs, LAMBDA r : r.value.passed))

Init ==
    /\ call = NoCall
    /\ result = NoResult
    /\ config \in Configs
    /\ storage \in Storages
    /\ pc = "stage_1"
    /\ stagesRun = <<>>
    /\ manifests = <<>>
    /\ restaurant_infos = <<>>
    /\ vision_results = <<>>
    /\ reports = <<>>
    /\ writes = <<>>
    /\ outcome = NoResult

\* Line 630: _run_stage_1
RunStage1 ==
    /\ pc = "stage_1"
    /\ stagesRun' = Append(stagesRun, 1)
    /\ LET built == Stage1Manifests(config, storage)
       IN IF Raised(built)
          THEN /\ outcome' = [raised |-> built.raised, during |-> "_run_stage_1"]
               /\ pc' = "done"
               /\ writes' = writes \o WritesOfFailedStage1(config, storage)
               /\ UNCHANGED manifests
          ELSE /\ manifests' = built.value
               /\ writes' = IF ShouldWrite(config, 1)
                            THEN writes \o WriteStage1Outputs(built.value)
                            ELSE writes
               /\ pc' = "gate_2"
               /\ UNCHANGED outcome
    /\ UNCHANGED <<call, result, config, storage, restaurant_infos,
                   vision_results, reports>>

\* Lines 634-641: the places provider and _run_stage_2
RunStage2 ==
    /\ pc = "gate_2"
    /\ StageEnabled(config, 2)
    /\ LET provider == BuildPlacesProvider(config)
       IN IF Raised(provider)
          THEN /\ outcome' = [raised |-> provider.raised,
                              during |-> "_build_places_provider"]
               /\ pc' = "done"
               /\ UNCHANGED <<stagesRun, restaurant_infos, writes>>
          ELSE LET by_folder == Stage2ByFolder(manifests, provider.value, <<>>)
               IN /\ stagesRun' = Append(stagesRun, 2)
                  /\ restaurant_infos' = by_folder
                  /\ writes' = IF ShouldWrite(config, 2)
                               THEN writes \o WriteByFolder(by_folder, "restaurant.json")
                               ELSE writes
                  /\ pc' = "gate_3"
                  /\ UNCHANGED outcome
    /\ UNCHANGED <<call, result, config, storage, manifests, vision_results,
                   reports>>

\* Line 634 when the ceiling is below 2
SkipStage2 ==
    /\ pc = "gate_2"
    /\ ~StageEnabled(config, 2)
    /\ pc' = "gate_3"
    /\ UNCHANGED <<call, result, config, storage, stagesRun, manifests,
                   restaurant_infos, vision_results, reports, writes, outcome>>

\* Lines 649-656: the vision provider and _run_stage_3
RunStage3 ==
    /\ pc = "gate_3"
    /\ StageEnabled(config, 3)
    /\ LET provider == BuildVisionProvider(config)
       IN IF Raised(provider)
          THEN /\ outcome' = [raised |-> provider.raised,
                              during |-> "_build_vision_provider"]
               /\ pc' = "done"
               /\ UNCHANGED <<stagesRun, vision_results, writes>>
          ELSE LET by_folder == Stage3ByFolder(manifests, provider.value, <<>>)
               IN /\ stagesRun' = Append(stagesRun, 3)
                  /\ vision_results' = by_folder
                  /\ writes' = IF ShouldWrite(config, 3)
                               THEN writes \o WriteByFolder(by_folder, "vision.json")
                               ELSE writes
                  /\ pc' = "gate_4"
                  /\ UNCHANGED outcome
    /\ UNCHANGED <<call, result, config, storage, manifests, restaurant_infos,
                   reports>>

\* Line 649 when the ceiling is below 3
SkipStage3 ==
    /\ pc = "gate_3"
    /\ ~StageEnabled(config, 3)
    /\ pc' = "gate_4"
    /\ UNCHANGED <<call, result, config, storage, stagesRun, manifests,
                   restaurant_infos, vision_results, reports, writes, outcome>>

\* Lines 660-675: _run_stage_4 and `return 1` when a report did not pass
RunStage4 ==
    /\ pc = "gate_4"
    /\ StageEnabled(config, 4)
    /\ \E done \in {Stage4Loop(manifests, restaurant_infos, vision_results,
                                [reports |-> <<>>, uploads |-> <<>>])} :
          /\ stagesRun' = Append(stagesRun, 4)
          /\ reports' = done.reports
          /\ writes' = writes \o done.uploads
          /\ IF PassedCount(done.reports) # Len(done.reports)
             THEN outcome' = Returned(1) /\ pc' = "done"
             ELSE outcome' = outcome /\ pc' = "return"
    /\ UNCHANGED <<call, result, config, storage, manifests, restaurant_infos,
                   vision_results>>

\* Line 660 when the ceiling is below 4
SkipStage4 ==
    /\ pc = "gate_4"
    /\ ~StageEnabled(config, 4)
    /\ pc' = "return"
    /\ UNCHANGED <<call, result, config, storage, stagesRun, manifests,
                   restaurant_infos, vision_results, reports, writes, outcome>>

\* Line 676: `return 0`
Return ==
    /\ pc = "return"
    /\ outcome' = Returned(0)
    /\ pc' = "done"
    /\ UNCHANGED <<call, result, config, storage, stagesRun, manifests,
                   restaurant_infos, vision_results, reports, writes>>

Next ==
    \/ RunStage1
    \/ RunStage2
    \/ SkipStage2
    \/ RunStage3
    \/ SkipStage3
    \/ RunStage4
    \/ SkipStage4
    \/ Return

Spec == Init /\ [][Next]_vars

-----------------------------------------------------------------------------
(* Properties of run_pipeline.                                             *)

RunReturned == "value" \in DOMAIN outcome

\* Number of the gates of run_pipeline the run has gone through: stage 1,
\* then the three `if config.stage >= k`.
GatesPassed ==
    IF Raised(outcome) THEN Len(stagesRun)
    ELSE IF pc = "stage_1" THEN 0
    ELSE IF pc = "gate_2" THEN 1
    ELSE IF pc = "gate_3" THEN 2
    ELSE IF pc = "gate_4" THEN 3
    ELSE 4

\* C1: the stages run in the order 1,2,3,4 without a gap or a repetition;
\* stage 1 runs in every run; no stage above the configured ceiling runs;
\* and once the run has gone through the gate of stage k (in a run that
\* returns: all of them), stage k has run exactly if k is at most the
\* ceiling.
C1_StagesInOrderUpToCeiling ==
    /\ \A i \in 1..Len(stagesRun) : stagesRun[i] = i
    /\ \A i \in 1..Len(stagesRun) : stagesRun[i] <= config.stage
    /\ pc # "stage_1" => Len(stagesRun) >= 1 /\ stagesRun[1] = 1
    /\ \A k \in 1..4 :
          k <= GatesPassed => (k \in Range(stagesRun) <=> k <= config.stage)
    /\ RunReturned => GatesPassed = 4

\* A run with ceiling 3 has returned 0 after stages 1, 2 and 3.
C1_Witness ==
    /\ pc = "done"
    /\ outcome = Returned(0)
    /\ config.stage = 3
    /\ stagesRun = <<1, 2, 3>>

Written(folder_name, file_name) ==
    \E i \in 1..Len(writes) :
        writes[i].folder_name = folder_name /\ writes[i].file_name = file_name

\* The report of a selected folder.
ReportOf(manifest) ==
    DictGet(reports, manifest.source_folder_name,
            [passed |-> TRUE, violations |-> <<>>])

SomeReportFailed ==
    \E i \in 1..Len(manifests) : ~ReportOf(manifests[i]).passed

\* C2: run_pipeline returns a non-zero value exactly if stage 4 ran and the
\* report of some selected folder has passed = false; and then review.html
\* and rules_report.json have been written for every selected folder.
C2_NonZeroIffStage4ReportFailed ==
    /\ (RunReturned /\ outcome.value # 0)
          <=> (4 \in Range(stagesRun) /\ SomeReportFailed)
    /\ (RunReturned /\ outcome.value # 0) =>
          \A i \in 1..Len(manifests) :
              /\ Written(manifests[i].source_folder_name, "review.html")
              /\ Written(manifests[i].source_folder_name, "rules_report.json")

\* A run over three folders has returned 1: one report failed, another
\* passed, and the failing folder has both files.
C2_Witness ==
    /\ outcome = Returned(1)
    /\ Len(manifests) = 3
    /\ \E i, j \in 1..Len(manifests) :
          /\ ~ReportOf(manifests[i]).passed
          /\ ReportOf(manifests[j]).passed
          /\ Written(manifests[i].source_folder_name, "review.html")
          /\ Written(manifests[i].source_folder_name, "rules_report.json")

ArtifactOf(k) ==
    IF k = 1 THEN "manifest.json"
    ELSE IF k = 2 THEN "restaurant.json"
    ELSE "vision.json"

SomeWritten(file_name) ==
    \E i \in 1..Len(writes) : writes[i].file_name = file_name

\* Stage k has run to its end (stage 1 is the one stage that can raise).
StageCompleted(k) ==
    /\ k \in Range(stagesRun)
    /\ ~(k = 1 /\ Raised(outcome) /\ outcome.during = "_run_stage_1")

\* C3: for k in 1..3 the artifact of stage k is written exactly if stage k
\* ran (to its end) and k is the ceiling or the intermediates flag is set,
\* and then for every selected folder; review.html and rules_report.json
\* are written for every selected folder exactly if stage 4 ran; with
\* ceiling 4 and the flag off none of the three JSON artifacts is written.
C3_ArtifactPersistence ==
    /\ \A k \in 1..3 :
          /\ SomeWritten(ArtifactOf(k))
                <=> (StageCompleted(k)
                     /\ (k = config.stage \/ config.write_intermediates))
          /\ SomeWritten(ArtifactOf(k)) =>
                \A i \in 1..Len(manifests) :
                    Written(manifests[i].source_folder_name, ArtifactOf(k))
    /\ \A name \in {"review.html", "rules_report.json"} :
          /\ SomeWritten(name) <=> 4 \in Range(stagesRun)
          /\ SomeWritten(name) =>
                \A i \in 1..Len(manifests) :
                    Written(manifests[i].source_folder_name, name)
    /\ (config.stage = 4 /\ ~config.write_intermediates) =>
          \A k \in 1..3 : ~SomeWritten(ArtifactOf(k))

\* A run with ceiling 4 and the flag off has returned: both stage-4 files
\* of every folder and nothing else are written.
C3_Witness ==
    /\ pc = "done"
    /\ RunReturned
    /\ config.stage = 4
    /\ ~config.write_intermediates
    /\ Len(manifests) >= 2
    /\ Len(writes) = 2 * Len(manifests)
    /\ ~SomeWritten("manifest.json")

\* The input root lists no folder with an id and a well-formed name.
NoValidSourceFolder ==
    \A i \in 1..Len(storage.children) : ~IsCandidate(storage.children[i])

\* The folders at and below the given ones, down to the given depth.
RECURSIVE FoldersBelow(_, _)
FoldersBelow(ids, depth) ==
    IF depth = 0 THEN ids
    ELSE FoldersBelow(
            ids \cup {Strip(e.id) : e \in
                        {e \in UNION {Range(ListChildren(storage, id)) : id \in ids} :
                            Strip(e.mimeType) = DRIVE_FOLDER_MIME_TYPE}},
            depth - 1)

\* Some file at or below the folder has an id and a supported extension.
HoldsSupportedImage(folder_id) ==
    \E id \in FoldersBelow({folder_id}, Len(storage.folders)) :
        \E e \in Range(ListChildren(storage, id)) :
            /\ Strip(e.id) # <<>>
            /\ Strip(e.mimeType) \notin {<<>>, DRIVE_FOLDER_MIME_TYPE}
            /\ \E ext \in SUPPORTED_IMAGE_EXTENSIONS :
                  EndsWith(Lower(Strip(e.name)), ext)

\* The folders stage 1 selects from a root that has valid source folders.
SelectedFolders ==
    SelectLatestSourceFolders(ListSourceFolders(storage.children),
                              config.latest).value

SomeSelectedFolderWithoutImages ==
    /\ ~NoValidSourceFolder
    /\ \E i \in 1..Len(SelectedFolders) :
          ~HoldsSupportedImage(SelectedFolders[i].folder_id)

\* C4: when the input root has no validly named source folder, or a
\* selected folder holds no supported image, stage 1 raises and the run
\* ends there: stage 2, 3 and 4 do not run for any folder.
C4_DiscoveryErrorsAreFatal ==
    (pc # "stage_1" /\ (NoValidSourceFolder \/ SomeSelectedFolderWithoutImages))
    => /\ Raised(outcome)
       /\ outcome.during = "_run_stage_1"
       /\ pc = "done"
       /\ stagesRun = <<1>>
       /\ restaurant_infos = <<>>
       /\ vision_results = <<>>
       /\ reports = <<>>

\* A run with ceiling 4 selected three folders, the last of which holds no
\* image, and ended in stage 1 with RuntimeError.
C4_Witness ==
    /\ pc = "done"
    /\ config.stage = 4
    /\ SomeSelectedFolderWithoutImages
    /\ Len(SelectedFolders) = 3
    /\ HoldsSupportedImage(SelectedFolders[1].folder_id)
    /\ Raised(outcome)
    /\ outcome.raised = "RuntimeError"
    /\ stagesRun = <<1>>


\* The stage-4 document of a selected folder, from what stages 2 and 3 left.
DocumentOf(manifest) ==
    BuildReviewHtml(manifest,
        DictGet(restaurant_infos, manifest.source_folder_name, NotFoundInfo(CUTOFF_DAYS)),
        DictGet(vision_results, manifest.source_folder_name, <<>>))

\* A run without a places provider and without a vision provider in which
\* stage 4 has run.
DegradedRunComposed ==
    /\ config.places = "none"
    /\ config.vision = "none"
    /\ \E i \in 1..Len(stagesRun) : stagesRun[i] = 4

HasNotFoundLineAndFallback(doc) ==
    /\ Contains(doc, HTML_LI_OPEN \o missing_info_line \o HTML_LI_CLOSE)
    /\ Contains(doc, HTML_P_OPEN \o fallback_paragraph \o HTML_P_CLOSE)

\* C17 as stated: in a run without providers the document of every selected
\* folder has the "not found" info line and the fallback paragraph, and its
\* report has passed = true.
C17_DegradedRunPasses ==
    DegradedRunComposed =>
        \A i \in 1..Len(manifests) :
            /\ HasNotFoundLineAndFallback(DocumentOf(manifests[i]))
            /\ ReportOf(manifests[i]).passed

\* The folder 20260212_x.gif in a run without providers: its document has the
\* "not found" line and the fallback paragraph, and its report has failed on
\* the banned literal ".gif" of the restaurant name in the title.
C17_Witness ==
    /\ DegradedRunComposed
    /\ \E i \in 1..Len(manifests) :
          /\ manifests[i].source_folder_name = FolderG.name
          /\ HasNotFoundLineAndFallback(DocumentOf(manifests[i]))
          /\ ~ReportOf(manifests[i]).passed
          /\ ReportOf(manifests[i]).violations = <<MSG_BANNED \o BANNED_LITERALS[3]>>

\* In a run without providers every document has the two texts, and a
\* report fails only on a restaurant name that holds a banned literal.
DegradedRunPassesButForTheName ==
    DegradedRunComposed =>
        \A i \in 1..Len(manifests) :
            /\ HasNotFoundLineAndFallback(DocumentOf(manifests[i]))
            /\ ReportOf(manifests[i]).passed
               <=> BannedOrEmojiViolations(manifests[i].restaurant_name) = <<>>


-----------------------------------------------------------------------------
(* _build_paragraphs as a function of its own: manifests, restaurant infos *)
(* and lists of up to MaxVisionResults vision results.                     *)

MaxVisionResults == 2

ComposeManifest(images) ==
    [source_folder_id |-> FolderA.id, source_folder_name |-> FolderA.name,
     visit_date |-> <<50, 48, 50, 54, 48, 50, 49, 48>>, restaurant_name |-> <<65>>, images |-> images]

ComposeManifests ==
    {ComposeManifest(<<>>),
     ComposeManifest(<<[file_id |-> <<97, 49>>, name |-> <<98, 46, 80, 78, 71>>, mime_type |-> MIME_PNG]>>)}

FoundInfo(recent_reviews) ==
    [found |-> TRUE, place_id |-> <<112, 97>>, name |-> <<65>>, address |-> <<>>,
     opening_hours |-> <<>>, rating |-> None, user_ratings_total |-> None,
     maps_url |-> <<>>, website |-> <<>>, recent_reviews |-> recent_reviews,
     recent_reviews_cutoff_days |-> CUTOFF_DAYS]

\* A text of 100 characters: 89 times a, a blank, 10 times b.
LongReviewText == [i \in 1..100 |-> IF i <= 89 THEN 97 ELSE IF i = 90 THEN 32 ELSE 98]

\* Not found; found without reviews; found with a review whose text is
\* blank, is made of characters the sanitizer removes, or is plain; found
\* with an older review listed before a newer one; found with a review of
\* more than 90 characters.
ComposeInfos ==
    {NotFoundInfo(CUTOFF_DAYS),
     FoundInfo(<<>>),
     FoundInfo(<<Review(Some(90 * SECONDS_PER_DAY), 5, <<32, 32>>)>>),
     FoundInfo(<<Review(Some(90 * SECONDS_PER_DAY), 5, <<DOUBLE_QUOTE>> \o <<42, 42>> \o <<DOUBLE_QUOTE>>),
                 Review(Some(95 * SECONDS_PER_DAY), 4, <<70, 105, 110, 101>>)>>),
     FoundInfo(<<Review(Some(90 * SECONDS_PER_DAY), 5, <<71, 114, 101, 97, 116>>)>>),
     FoundInfo(<<Review(Some(90 * SECONDS_PER_DAY), 5, <<79, 108, 100, 101, 114>>),
                 Review(Some(95 * SECONDS_PER_DAY), 4, <<78, 101, 119, 101, 114>>)>>),
     FoundInfo(<<Review(Some(95 * SECONDS_PER_DAY), 4, LongReviewText)>>)}

ComposeResult(analysis) ==
    [file_id |-> <<97, 49>>, name |-> <<98, 46, 80, 78, 71>>, analysis |-> analysis,
     raw |-> IF analysis = None THEN Some(RAW_NOT_CONFIGURED) ELSE None]

\* A result without analysis, and analyses: a blank scene and nothing else;
\* observations made of a double quote and of blanks; a food guess.
ComposeResults ==
    {ComposeResult(None),
     ComposeResult(Some(Payload(<<32>>, <<>>, <<>>))),
     ComposeResult(Some(Payload(<<102, 111, 111, 100>>, <<<<DOUBLE_QUOTE>>, <<32, 32>>>>, <<>>))),
     ComposeResult(Some(Payload(<<109, 101, 110, 117>>, <<>>, <<<<114, 97, 109, 101, 110>>, <<114, 97, 109, 101, 110, 32>>>>)))}

ComposeInit ==
    /\ call \in {[fn |-> "_build_paragraphs", manifest |-> m,
                  restaurant_info |-> info, results |-> rs] :
                    m \in ComposeManifests, info \in ComposeInfos,
                    rs \in SeqsUpTo(ComposeResults, MaxVisionResults)}
    /\ result = NoResult
    /\ PipelineIdle

\* _build_paragraphs(manifest, restaurant_info, vision_results, prompts) with
\* the default prompts
CallBuildParagraphs ==
    /\ call.fn = "_build_paragraphs"
    /\ result = NoResult
    /\ result' = Returned(BuildParagraphs(call.manifest, call.restaurant_info,
                                          call.results))
    /\ UNCHANGED <<call, pipelineVars>>

ComposeNext == CallBuildParagraphs

SpecCompose == ComposeInit /\ [][ComposeNext]_vars

\* Nothing but the intro is composed: no result has an analysis, and there
\* is no recent review or the text of the first one is blank.
OnlyIntroComposed(restaurant_info, results) ==
    /\ \A i \in 1..Len(results) : results[i].analysis = None
    /\ \/ restaurant_info.recent_reviews = <<>>
       \/ Strip(restaurant_info.recent_reviews[1].text) = <<>>

\* C18: _build_paragraphs returns at least two paragraphs, none of them
\* empty; when only the intro was composed these are the intro and the
\* fallback paragraph, and otherwise the fallback paragraph is not among them.
C18_NeverSingleParagraph ==
    (call.fn = "_build_paragraphs" /\ result # NoResult) =>
        /\ Len(result.value) >= 2
        /\ \A i \in 1..Len(result.value) : result.value[i] # <<>>
        /\ IF OnlyIntroComposed(call.restaurant_info, call.results)
           THEN Len(result.value) = 2 /\ result.value[2] = fallback_paragraph
           ELSE \A i \in 1..Len(result.value) : result.value[i] # fallback_paragraph

\* A found restaurant whose only recent review has a blank text, and two
\* results without analysis: the intro and the fallback paragraph.
C18_Witness ==
    /\ call.fn = "_build_paragraphs"
    /\ result # NoResult
    /\ call.restaurant_info.found
    /\ call.restaurant_info.recent_reviews # <<>>
    /\ Len(call.results) = 2
    /\ OnlyIntroComposed(call.restaurant_info, call.results)
    /\ result.value[2] = fallback_paragraph
    /\ Len(result.value) = 2


-----------------------------------------------------------------------------
(* PlacesClient.fetch_restaurant_info (src/src/places_client.py) over any  *)
(* provider: what search_place and get_place_details do is an outcome, a   *)
(* raised exception or a returned JSON value.                              *)

\* JSON values as the provider hands them over (None, str, int, the float
\* inf, list, dict).
JNull       == [type |-> "null", str |-> <<>>, num |-> 0, items |-> <<>>, pairs |-> <<>>]
JStr(s)     == [type |-> "str",  str |-> s,    num |-> 0, items |-> <<>>, pairs |-> <<>>]
JInt(n)     == [type |-> "int",  str |-> <<>>, num |-> n, items |-> <<>>, pairs |-> <<>>]
JInf        == [type |-> "inf",  str |-> <<>>, num |-> 0, items |-> <<>>, pairs |-> <<>>]
JList(vs)   == [type |-> "list", str |-> <<>>, num |-> 0, items |-> vs,   pairs |-> <<>>]
JDict(kvs)  == [type |-> "dict", str |-> <<>>, num |-> 0, items |-> <<>>, pairs |-> kvs]
Pair(k, v)  == [key |-> k, value |-> v]

\* bool(v)
Truthy(v) ==
    CASE v.type = "null" -> FALSE
      [] v.type = "str"  -> v.str # <<>>
      [] v.type = "int"  -> v.num # 0
      [] v.type = "inf"  -> TRUE
      [] v.type = "list" -> v.items # <<>>
      [] v.type = "dict" -> v.pairs # <<>>

\* a or b
Or(a, b) == IF Truthy(a) THEN a ELSE b

\* d.get(key) and d.get(key, default) of a dict
Get(d, key, default) == DictGet(d.pairs, key, default)

\* "None", "inf"
STR_NONE == <<78, 111, 110, 101>>
STR_INF  == <<105, 110, 102>>

\* str(v) of None, a str, a natural number or inf
PyStr(v) ==
    CASE v.type = "str"  -> v.str
      [] v.type = "int"  -> IntToStr(v.num)
      [] v.type = "null" -> STR_NONE
      [] v.type = "inf"  -> STR_INF

IsDigits(s) == s # <<>> /\ \A i \in 1..Len(s) : s[i] \in 48..57

RECURSIVE DigitsValue(_)
DigitsValue(s) ==
    IF s = <<>> THEN 0
    ELSE 10 * DigitsValue(SubSeq(s, 1, Len(s) - 1)) + (s[Len(s)] - 48)

OverflowError  == [raised |-> "OverflowError"]
AttributeError == [raised |-> "AttributeError"]
TypeError      == [raised |-> "TypeError"]

\* _safe_int: None for None and for what int() rejects with TypeError or
\* ValueError (a list, a dict, a text that is no number; texts are read as
\* unsigned decimal digits between blanks). int(inf) is an OverflowError,
\* which _safe_int does not catch.
SafeInt(v) ==
    CASE v.type = "null" -> Returned(None)
      [] v.type = "int"  -> Returned(Some(v.num))
      [] v.type = "str"  -> IF IsDigits(Strip(v.str))
                            THEN Returned(Some(DigitsValue(Strip(v.str))))
                            ELSE Returned(None)
      [] v.type = "inf"  -> OverflowError
      [] v.type \in {"list", "dict"} -> Returned(None)

\* A float, in tenths, or inf.
Float(tenths) == [tenths |-> tenths, inf |-> FALSE]
FloatInf      == [tenths |-> 0, inf |-> TRUE]

\* _safe_float (texts as in SafeInt)
SafeFloat(v) ==
    CASE v.type = "null" -> None
      [] v.type = "int"  -> Some(Float(10 * v.num))
      [] v.type = "str"  -> IF IsDigits(Strip(v.str))
                            THEN Some(Float(10 * DigitsValue(Strip(v.str))))
                            ELSE None
      [] v.type = "inf"  -> Some(FloatInf)
      [] v.type \in {"list", "dict"} -> None

\* The loop of _filter_recent_reviews over a list: review.get on something
\* that is no dict is an AttributeError.
RECURSIVE FilterReviewList(_, _, _)
FilterReviewList(reviews, cutoff_ts, kept) ==
    IF reviews = <<>> THEN Returned(kept)
    ELSE LET review == Head(reviews)
         IN IF review.type # "dict" THEN AttributeError
            ELSE LET review_ts == SafeInt(Get(review, <<116, 105, 109, 101>>, JNull))
                 IN IF Raised(review_ts) THEN review_ts
                    ELSE IF review_ts.value = None
                         THEN FilterReviewList(Tail(reviews), cutoff_ts, kept)
                    ELSE IF review_ts.value[1] < cutoff_ts
                         THEN FilterReviewList(Tail(reviews), cutoff_ts, kept)
                    ELSE FilterReviewList(Tail(reviews), cutoff_ts,
                            Append(kept,
                                [time |-> review_ts.value[1],
                                 rating |-> Get(review, <<114, 97, 116, 105, 110, 103>>, JInt(0)),
                                 text |-> PyStr(Get(review, <<116, 101, 120, 116>>, JStr(<<>>))),
                                 relative_time |-> PyStr(Get(review,
                                     <<114, 101, 108, 97, 116, 105, 118, 101, 95, 116, 105, 109, 101>>,
                                     JStr(<<>>)))]))

\* Variant of the filter whose boundary is exclusive: a review exactly at
\* the cutoff is dropped.
FilterRecentReviewsExclusive(reviews, cutoff_days) ==
    IF ~Truthy(reviews) THEN Returned(<<>>)
    ELSE IF cutoff_days < 1 THEN Returned(<<>>)
    ELSE CASE reviews.type \in {"int", "inf"} -> TypeError
           [] reviews.type \in {"str", "dict"} -> AttributeError
           [] reviews.type = "list" ->
                FilterReviewList(reviews.items, NowTs - cutoff_days * 24 * 60 * 60 + 1, <<>>)

\* PlacesClient._filter_recent_reviews on whatever details.get("reviews")
\* is: a number cannot be iterated (TypeError), the elements of a text and
\* the keys of a dict are texts (AttributeError).
FilterRecentReviewsOf(reviews, cutoff_days) ==
    IF ~Truthy(reviews) THEN Returned(<<>>)
    ELSE IF cutoff_days < 1 THEN Returned(<<>>)
    ELSE CASE reviews.type \in {"int", "inf"} -> TypeError
           [] reviews.type \in {"str", "dict"} -> AttributeError
           [] reviews.type = "list" ->
                FilterReviewList(reviews.items, NowTs - cutoff_days * 24 * 60 * 60, <<>>)

\* list(x): of a list its elements, of a text its characters, of a dict its
\* keys; a number is a TypeError.
PyList(x) ==
    CASE x.type = "list" -> Returned(x.items)
      [] x.type = "str"  -> Returned([i \in 1..Len(x.str) |-> JStr(<<x.str[i]>>)])
      [] x.type = "dict" -> Returned([i \in 1..Len(x.pairs) |-> JStr(x.pairs[i].key)])
      [] x.type \in {"int", "inf"} -> TypeError

\* Variant that keeps the place id of the search when the details call
\* raises.
DetailsFailedPartial(place_id, cutoff_days) ==
    [NotFoundInfo(cutoff_days) EXCEPT !.found = TRUE, !.place_id = place_id]

\* Lines 102-103: `except Exception` around get_place_details
DetailsFailed(place_id, cutoff_days) == NotFoundInfo(cutoff_days)

\* Lines 106-117: the record built from the details
InfoFromDetails(details, place_id, restaurant_name, cutoff_days) ==
    LET recent_reviews == FilterRecentReviewsOf(
                              Get(details, <<114, 101, 118, 105, 101, 119, 115>>, JNull),
                              cutoff_days)
        opening_hours  == PyList(Or(Get(details,
                              <<111, 112, 101, 110, 105, 110, 103, 95, 104, 111, 117, 114, 115>>,
                              JNull), JList(<<>>)))
        total          == SafeInt(Get(details,
                              <<117, 115, 101, 114, 95, 114, 97, 116, 105, 110, 103, 115, 95, 116, 111, 116, 97, 108>>,
                              JNull))
    IN IF Raised(recent_reviews) THEN recent_reviews
       ELSE IF Raised(opening_hours) THEN opening_hours
       ELSE IF Raised(total) THEN total
       ELSE Returned(
            [found |-> TRUE,
             place_id |-> place_id,
             name |-> PyStr(Or(Get(details, <<110, 97, 109, 101>>, JNull),
                               JStr(restaurant_name))),
             address |-> PyStr(Get(details, <<97, 100, 100, 114, 101, 115, 115>>, JStr(<<>>))),
             opening_hours |-> opening_hours.value,
             rating |-> SafeFloat(Get(details, <<114, 97, 116, 105, 110, 103>>, JNull)),
             user_ratings_total |-> total.value,
             maps_url |-> PyStr(Get(details, <<109, 97, 112, 115, 95, 117, 114, 108>>, JStr(<<>>))),
             website |-> PyStr(Get(details, <<119, 101, 98, 115, 105, 116, 101>>, JStr(<<>>))),
             recent_reviews |-> recent_reviews.value,
             recent_reviews_cutoff_days |-> cutoff_days])

\* PlacesClient.fetch_restaurant_info; provider is None or Some of what its
\* two calls do.
FetchFromProvider(provider, restaurant_name, cutoff_days) ==
    IF provider = None THEN Returned(NotFoundInfo(cutoff_days))
    ELSE IF Raised(provider[1].search_place) THEN Returned(NotFoundInfo(cutoff_days))
    ELSE LET found == provider[1].search_place.value
         IN IF ~Truthy(found) THEN Returned(NotFoundInfo(cutoff_days))
            ELSE LET place_id == Strip(PyStr(
                        Or(Or(Get(found, <<112, 108, 97, 99, 101, 95, 105, 100>>, JNull),
                              Get(found, <<112, 108, 97, 99, 101, 73, 100>>, JNull)),
                           JStr(<<>>))))
                 IN IF place_id = <<>> THEN Returned(NotFoundInfo(cutoff_days))
                    ELSE IF Raised(provider[1].get_place_details)
                         THEN Returned(DetailsFailed(place_id, cutoff_days))
                    ELSE InfoFromDetails(
                            Or(provider[1].get_place_details.value, JDict(<<>>)),
                            place_id, restaurant_name, cutoff_days)

\* The calls examined: what the search returns, and details put together
\* from values of each field, with review lists of up to MaxReviews reviews.
MaxReviews == 2

KEY_PLACE_ID == <<112, 108, 97, 99, 101, 95, 105, 100>>
KEY_PLACE_ID_CAMEL == <<112, 108, 97, 99, 101, 73, 100>>

\* search_place raises; returns None or an empty dict; a dict without a
\* place id or with a blank one; a dict with place_id or placeId.
SearchOutcomes ==
    {RuntimeError,
     Returned(JNull),
     Returned(JDict(<<>>)),
     Returned(JDict(<<Pair(<<110, 97, 109, 101>>, JStr(<<65>>))>>)),
     Returned(JDict(<<Pair(KEY_PLACE_ID, JStr(<<32, 32>>))>>)),
     Returned(JDict(<<Pair(KEY_PLACE_ID, JStr(<<112, 97>>))>>)),
     Returned(JDict(<<Pair(KEY_PLACE_ID, JNull), Pair(KEY_PLACE_ID_CAMEL, JStr(<<32, 112, 98>>))>>)),
     Returned(JDict(<<Pair(KEY_PLACE_ID, JInt(7))>>))}

ReviewDict(time, text) ==
    JDict(<<Pair(<<116, 105, 109, 101>>, time), Pair(<<114, 97, 116, 105, 110, 103>>, JInt(5)), Pair(<<116, 101, 120, 116>>, JStr(text))>>)

\* A review of ten days ago, one of ninety days ago, one whose time is no
\* number, and a review that is a text instead of a dict.
ReviewPool ==
    {ReviewDict(JInt(90 * SECONDS_PER_DAY), <<71, 114, 101, 97, 116>>),
     ReviewDict(JInt(10 * SECONDS_PER_DAY), <<79, 108, 100>>),
     ReviewDict(JStr(<<121, 101, 115, 116, 101, 114, 100, 97, 121>>), <<85, 110, 100, 97, 116, 101, 100>>),
     JStr(<<71, 114, 101, 97, 116, 32, 112, 108, 97, 99, 101>>)}

\* A field that is missing is None here, a field that is there is Some(value).
RatingValues  == {None, Some(JInt(4)), Some(JStr(<<97, 98, 99>>)), Some(JList(<<JInt(4)>>))}
TotalValues   == {None, Some(JInt(12)), Some(JStr(<<32, 49, 50, 32>>)), Some(JStr(<<109, 97, 110, 121>>)), Some(JInf)}
HoursValues   == {None, Some(JList(<<JStr(<<77, 111, 110, 32, 57, 45, 49, 56>>)>>)), Some(JInt(5))}
ReviewsValues ==
    {None, Some(JNull), Some(JStr(<<103, 114, 101, 97, 116>>))}
    \cup {Some(JList(rs)) : rs \in SeqsUpTo(ReviewPool, MaxReviews)}

Field(key, optional) == IF optional = None THEN <<>> ELSE <<Pair(key, optional[1])>>

DetailsDict(rating, total, hours, reviews) ==
    JDict(<<Pair(<<110, 97, 109, 101>>, JStr(<<65, 32, 78, 111, 111, 100, 108, 101, 115>>))>>
          \o Field(<<114, 97, 116, 105, 110, 103>>, rating) \o Field(<<117, 115, 101, 114, 95, 114, 97, 116, 105, 110, 103, 115, 95, 116, 111, 116, 97, 108>>, total)
          \o Field(<<111, 112, 101, 110, 105, 110, 103, 95, 104, 111, 117, 114, 115>>, hours) \o Field(<<114, 101, 118, 105, 101, 119, 115>>, reviews))

DetailsOutcomes ==
    {RuntimeError, Returned(JNull)}
    \cup {Returned(DetailsDict(r, t, h, rv)) :
            r \in RatingValues, t \in TotalValues, h \in HoursValues,
            rv \in ReviewsValues}

FetchProviders ==
    {None} \cup {Some([search_place |-> s, get_place_details |-> d]) :
                    s \in SearchOutcomes, d \in DetailsOutcomes}

FetchInit ==
    /\ call \in {[fn |-> "fetch_restaurant_info", provider |-> p,
                  restaurant_name |-> <<65>>, cutoff_days |-> c] :
                    p \in FetchProviders, c \in {0, CUTOFF_DAYS}}
    /\ result = NoResult
    /\ PipelineIdle

\* fetch_restaurant_info(restaurant_name, cutoff_days)
CallFetch ==
    /\ call.fn = "fetch_restaurant_info"
    /\ result = NoResult
    /\ result' = FetchFromProvider(call.provider, call.restaurant_name, call.cutoff_days)
    /\ UNCHANGED <<call, pipelineVars>>

FetchNext == CallFetch

SpecFetch == FetchInit /\ [][FetchNext]_vars

\* The search result has no place identifier: neither place_id nor placeId
\* is there with a value that is not blank.
LacksPlaceId(found) ==
    \A key \in {KEY_PLACE_ID, KEY_PLACE_ID_CAMEL} :
        LET v == Get(found, key, JNull)
        IN v.type = "null" \/ (v.type = "str" /\ Strip(v.str) = <<>>)

\* The cases of C19.
NotFoundCase(provider) ==
    \/ provider = None
    \/ /\ provider # None
       /\ \/ Raised(provider[1].search_place)
          \/ /\ ~Raised(provider[1].search_place)
             /\ \/ ~Truthy(provider[1].search_place.value)
                \/ LacksPlaceId(provider[1].search_place.value)
                \/ Raised(provider[1].get_place_details)

\* C19: without a provider, when the search raises, returns nothing or has
\* no place identifier, and when the details call raises after a search
\* that found the place, fetch_restaurant_info returns found = false with
\* every other field empty but the cutoff days.
C19_NotFoundWithoutPartialData ==
    (/\ call.fn = "fetch_restaurant_info"
     /\ result # NoResult
     /\ NotFoundCase(call.provider)) =>
        result = Returned(NotFoundInfo(call.cutoff_days))

\* The search finds the place "pa" and the details call raises: not found,
\* and no place id in the record.
C19_Witness ==
    /\ call.fn = "fetch_restaurant_info"
    /\ result # NoResult
    /\ call.provider # None
    /\ call.cutoff_days = CUTOFF_DAYS
    /\ call.provider[1].search_place = Returned(JDict(<<Pair(KEY_PLACE_ID, JStr(<<112, 97>>))>>))
    /\ Raised(call.provider[1].get_place_details)
    /\ result = Returned(NotFoundInfo(CUTOFF_DAYS))

\* A value int() and float() do not take: a list, a dict, a text that is no
\* number.
Unparsable(v) ==
    \/ v.type \in {"list", "dict"}
    \/ v.type = "str" /\ ~IsDigits(Strip(v.str))

\* The details the provider returned, when the call got that far.
DetailsReturned ==
    /\ call.provider # None
    /\ ~NotFoundCase(call.provider)

\* C20 as stated: fetch_restaurant_info raises nothing, whatever the
\* provider does, and a numeric field that cannot be parsed comes back as
\* None.
C20_NeverRaises ==
    (call.fn = "fetch_restaurant_info" /\ result # NoResult) =>
        /\ ~Raised(result)
        /\ DetailsReturned =>
             LET details == Or(call.provider[1].get_place_details.value, JDict(<<>>))
             IN /\ Unparsable(Get(details, <<114, 97, 116, 105, 110, 103>>, JNull))
                      => result.value.rating = None
                /\ Unparsable(Get(details, <<117, 115, 101, 114, 95, 114, 97, 116, 105, 110, 103, 115, 95, 116, 111, 116, 97, 108>>, JNull))
                      => result.value.user_ratings_total = None

\* The details hold one review, which is a text and no dict: the call ends
\* with an AttributeError.
C20_Witness ==
    /\ call.fn = "fetch_restaurant_info"
    /\ call.provider # None
    /\ DetailsReturned
    /\ call.cutoff_days = CUTOFF_DAYS
    /\ Get(call.provider[1].get_place_details.value, <<114, 101, 118, 105, 101, 119, 115>>, JNull)
         = JList(<<JStr(<<71, 114, 101, 97, 116, 32, 112, 108, 97, 99, 101>>)>>)
    /\ result = AttributeError

\* Apart from the raised errors, a numeric field that cannot be parsed
\* comes back as None.
UnparsableNumbersBecomeNone ==
    (call.fn = "fetch_restaurant_info" /\ result # NoResult /\ ~Raised(result)
     /\ DetailsReturned) =>
        LET details == Or(call.provider[1].get_place_details.value, JDict(<<>>))
        IN /\ Unparsable(Get(details, <<114, 97, 116, 105, 110, 103>>, JNull))
                 => result.value.rating = None
           /\ Unparsable(Get(details, <<117, 115, 101, 114, 95, 114, 97, 116, 105, 110, 103, 115, 95, 116, 111, 116, 97, 108>>, JNull))
                 => result.value.user_ratings_total = None


-----------------------------------------------------------------------------
(* PlacesClient._filter_recent_reviews as a function of its own: lists of  *)
(* up to MaxReviews reviews around the cutoff, and cutoff days around 1.   *)

\* Reviews with times at the cutoff of 60 days and one second before it, at
\* the cutoff of one day, ten days ago, at the 60-day cutoff as a text, and
\* without a time.
BoundaryReviewPool ==
    {ReviewDict(JInt(40 * SECONDS_PER_DAY), <<97, 116, 32, 54, 48>>),
     ReviewDict(JInt(40 * SECONDS_PER_DAY - 1), <<98, 101, 102, 111, 114, 101, 32, 54, 48>>),
     ReviewDict(JInt(99 * SECONDS_PER_DAY), <<97, 116, 32, 49>>),
     ReviewDict(JInt(90 * SECONDS_PER_DAY), <<116, 101, 110, 32, 100, 97, 121, 115>>),
     ReviewDict(JStr(<<51, 52, 53, 54, 48, 48, 48>>), <<116, 101, 120, 116, 32, 116, 105, 109, 101>>),
     JDict(<<Pair(<<116, 101, 120, 116>>, JStr(<<110, 111, 32, 116, 105, 109, 101>>))>>)}

FilterCutoffs == {-1, 0, 1, CUTOFF_DAYS}

FilterInit ==
    /\ call \in {[fn |-> "_filter_recent_reviews", reviews |-> rs, cutoff_days |-> c] :
                    rs \in SeqsUpTo(BoundaryReviewPool, MaxReviews), c \in FilterCutoffs}
    /\ result = NoResult
    /\ PipelineIdle

\* _filter_recent_reviews(reviews, cutoff_days)
CallFilter ==
    /\ call.fn = "_filter_recent_reviews"
    /\ result = NoResult
    /\ result' = FilterRecentReviewsOf(JList(call.reviews), call.cutoff_days)
    /\ UNCHANGED <<call, pipelineVars>>

FilterNext == CallFilter

SpecFilter == FilterInit /\ [][FilterNext]_vars

\* The timestamp of a review of the provider, if it has one: a number, or a
\* text of decimal digits.
TimestampOf(review) ==
    LET t == Get(review, <<116, 105, 109, 101>>, JNull)
    IN IF t.type = "int" THEN Some(t.num)
       ELSE IF t.type = "str" /\ IsDigits(t.str) THEN Some(DigitsValue(t.str))
       ELSE None

IsRecent(review, cutoff_days) ==
    /\ TimestampOf(review) # None
    /\ TimestampOf(review)[1] >= NowTs - cutoff_days * 86400

\* C21: the filter returns, in the provider's order, exactly the reviews
\* whose timestamp is at least now - cutoff_days * 86400, and nothing when
\* cutoff_days is below 1.
C21_RecencyFilter ==
    (call.fn = "_filter_recent_reviews" /\ result # NoResult) =>
        /\ ~Raised(result)
        /\ IF call.cutoff_days < 1 THEN result.value = <<>>
           ELSE LET kept == SelectSeq(call.reviews,
                                LAMBDA review : IsRecent(review, call.cutoff_days))
                IN /\ Len(result.value) = Len(kept)
                   /\ \A i \in 1..Len(kept) :
                         /\ result.value[i].time = TimestampOf(kept[i])[1]
                         /\ result.value[i].text
                              = Get(kept[i], <<116, 101, 120, 116>>, JNull).str

\* With a cutoff of 60 days the review one second before the cutoff is
\* dropped and the one exactly at the cutoff, behind it in the list, is kept.
C21_Witness ==
    /\ call.fn = "_filter_recent_reviews"
    /\ result # NoResult
    /\ call.cutoff_days = CUTOFF_DAYS
    /\ Len(call.reviews) = 2
    /\ TimestampOf(call.reviews[1]) = Some(NowTs - CUTOFF_DAYS * 86400 - 1)
    /\ TimestampOf(call.reviews[2]) = Some(NowTs - CUTOFF_DAYS * 86400)
    /\ Get(call.reviews[2], <<116, 105, 109, 101>>, JNull).type = "int"
    /\ Len(result.value) = 1
    /\ result.value[1].time = NowTs - CUTOFF_DAYS * 86400


-----------------------------------------------------------------------------
(* The vision layer over any provider (src/src/vision_client.py): what     *)
(* analyze_image does for a call is an outcome, a raised exception with    *)
(* its message or a returned JSON value. The lists of an analysis hold the *)
(* JSON values of the payload.                                             *)

RaisedWith(kind, message) == [raised |-> kind, message |-> message]

KEY_SCENE_TYPE == <<115, 99, 101, 110, 101, 95, 116, 121, 112, 101>>
KEY_OBSERVATIONS == <<111, 98, 115, 101, 114, 118, 97, 116, 105, 111, 110, 115>>
KEY_FOOD_GUESS == <<102, 111, 111, 100, 95, 103, 117, 101, 115, 115>>
KEY_AMBIENCE_HINTS == <<97, 109, 98, 105, 101, 110, 99, 101, 95, 104, 105, 110, 116, 115>>
KEY_BLOGGABLE_DETAILS == <<98, 108, 111, 103, 103, 97, 98, 108, 101, 95, 100, 101, 116, 97, 105, 108, 115>>
KEY_WARNINGS == <<119, 97, 114, 110, 105, 110, 103, 115>>

\* allowed_scene_types: food, menu, interior, exterior, receipt, other
ALLOWED_SCENE_TYPES ==
    {<<102, 111, 111, 100>>, <<109, 101, 110, 117>>,
     <<105, 110, 116, 101, 114, 105, 111, 114>>,
     <<101, 120, 116, 101, 114, 105, 111, 114>>,
     <<114, 101, 99, 101, 105, 112, 116>>, SCENE_OTHER}

\* _as_list(key) of _normalize_analysis
AsList(payload, key) ==
    LET value == Get(payload, key, JList(<<>>))
    IN IF value.type = "list"
       THEN LET kept == SelectSeq(value.items, LAMBDA item : Strip(PyStr(item)) # <<>>)
            IN [i \in 1..Len(kept) |-> JStr(Strip(PyStr(kept[i])))]
       ELSE IF value.type = "str" /\ Strip(value.str) # <<>>
       THEN <<JStr(Strip(value.str))>>
       ELSE <<>>

\* _normalize_analysis(payload, fallback_warning)
NormalizeAnalysis(payload, fallback_warning) ==
    LET given      == Lower(Strip(PyStr(Get(payload, KEY_SCENE_TYPE, JStr(SCENE_OTHER)))))
        scene_type == IF given = <<>> THEN SCENE_OTHER
                      ELSE IF given \notin ALLOWED_SCENE_TYPES THEN SCENE_OTHER
                      ELSE given
        warnings   == IF AsList(payload, KEY_WARNINGS) = <<>>
                      THEN <<JStr(fallback_warning)>>
                      ELSE AsList(payload, KEY_WARNINGS)
    IN JDict(<<Pair(KEY_SCENE_TYPE, JStr(scene_type)),
               Pair(KEY_OBSERVATIONS, JList(AsList(payload, KEY_OBSERVATIONS))),
               Pair(KEY_FOOD_GUESS, JList(AsList(payload, KEY_FOOD_GUESS))),
               Pair(KEY_AMBIENCE_HINTS, JList(AsList(payload, KEY_AMBIENCE_HINTS))),
               Pair(KEY_BLOGGABLE_DETAILS, JList(AsList(payload, KEY_BLOGGABLE_DETAILS))),
               Pair(KEY_WARNINGS, JList(warnings))>>)

\* "image bytes unavailable for ", "vision parse fallback for "
WARNING_BYTES_UNAVAILABLE == <<105, 109, 97, 103, 101, 32, 98, 121, 116, 101, 115, 32, 117, 110, 97, 118, 97, 105, 108, 97, 98, 108, 101, 32, 102, 111, 114, 32>>
WARNING_PARSE_FALLBACK == <<118, 105, 115, 105, 111, 110, 32, 112, 97, 114, 115, 101, 32, 102, 97, 108, 108, 98, 97, 99, 107, 32, 102, 111, 114, 32>>

\* The provider's analyze_image for one image. A "gemini" provider answers
\* without a request when there are no bytes, and otherwise normalises what
\* it parsed from the response (or raises what the request raised); a
\* "plain" provider, like JsonVisionProvider, hands its payload over as it
\* is. image_bytes is None or Some(bytes).
AnalyzeImageOf(provider, image_name, image_bytes) ==
    IF provider.type = "gemini"
    THEN IF image_bytes = None \/ image_bytes = Some(<<>>)
         THEN Returned(JDict(<<Pair(KEY_SCENE_TYPE, JStr(SCENE_OTHER)),
                               Pair(KEY_OBSERVATIONS, JList(<<>>)),
                               Pair(KEY_FOOD_GUESS, JList(<<>>)),
                               Pair(KEY_AMBIENCE_HINTS, JList(<<>>)),
                               Pair(KEY_BLOGGABLE_DETAILS, JList(<<>>)),
                               Pair(KEY_WARNINGS,
                                    JList(<<JStr(WARNING_BYTES_UNAVAILABLE \o image_name)>>))>>))
         ELSE IF Raised(provider.response) THEN provider.response
         ELSE Returned(NormalizeAnalysis(provider.response.value,
                                         WARNING_PARSE_FALLBACK \o image_name))
    ELSE provider.response

\* Variant of the result of a failed provider call that keeps an analysis
\* of defaults next to raw.
AnalyzeFailedWithDefaults(file_id, image_name, message) ==
    [file_id |-> file_id, name |-> image_name,
     analysis |-> Some([scene_type |-> SCENE_OTHER, observations |-> <<>>,
                        food_guess |-> <<>>, ambience_hints |-> <<>>,
                        bloggable_details |-> <<>>, warnings |-> <<>>]),
     raw |-> Some(RAW_ANALYZE_FAILED \o message)]

\* Lines 89-94: `except Exception as exc`
AnalyzeFailed(file_id, image_name, message) ==
    [file_id |-> file_id, name |-> image_name, analysis |-> None,
     raw |-> Some(RAW_ANALYZE_FAILED \o message)]

\* Lines 95-102: VisionAnalysis(...) from the payload; .get on a payload
\* that is no dict is an AttributeError, list() of a number a TypeError.
AnalysisFromPayload(raw_payload) ==
    IF raw_payload.type # "dict" THEN AttributeError
    ELSE LET field(key) == PyList(Or(Get(raw_payload, key, JNull), JList(<<>>)))
             keys == <<KEY_OBSERVATIONS, KEY_FOOD_GUESS, KEY_AMBIENCE_HINTS,
                       KEY_BLOGGABLE_DETAILS, KEY_WARNINGS>>
         IN IF \E i \in 1..Len(keys) : Raised(field(keys[i])) THEN TypeError
            ELSE Returned(
                   [scene_type |-> PyStr(Get(raw_payload, KEY_SCENE_TYPE, JStr(SCENE_OTHER))),
                    observations      |-> field(KEY_OBSERVATIONS).value,
                    food_guess        |-> field(KEY_FOOD_GUESS).value,
                    ambience_hints    |-> field(KEY_AMBIENCE_HINTS).value,
                    bloggable_details |-> field(KEY_BLOGGABLE_DETAILS).value,
                    warnings          |-> field(KEY_WARNINGS).value])

\* VisionClient.analyze; provider is None or Some(provider)
AnalyzeFromProvider(provider, file_id, image_name, image_bytes) ==
    IF provider = None
    THEN Returned([file_id |-> file_id, name |-> image_name, analysis |-> None,
                   raw |-> Some(RAW_NOT_CONFIGURED)])
    ELSE LET raw_payload == AnalyzeImageOf(provider[1], image_name, image_bytes)
         IN IF Raised(raw_payload)
            THEN Returned(AnalyzeFailed(file_id, image_name, raw_payload.message))
            ELSE LET analysis == AnalysisFromPayload(raw_payload.value)
                 IN IF Raised(analysis) THEN analysis
                    ELSE Returned([file_id |-> file_id, name |-> image_name,
                                   analysis |-> Some(analysis.value), raw |-> None])

\* The calls examined: payloads put together from values of scene_type,
\* warnings and observations.
SceneValues ==
    {None, Some(JStr(<<102, 111, 111, 100>>)), Some(JStr(<<70, 79, 79, 68>>)), Some(JStr(<<32, 77, 101, 110, 117, 32>>)),
     Some(JStr(<<100, 101, 115, 115, 101, 114, 116>>)), Some(JStr(<<>>)), Some(JNull)}
WarningsValues ==
    {None, Some(JNull), Some(JList(<<>>)), Some(JList(<<JStr(<<32, 32>>)>>)),
     Some(JList(<<JStr(<<108, 111, 119, 32, 108, 105, 103, 104, 116>>)>>)), Some(JStr(<<98, 108, 117, 114, 114, 121>>)), Some(JInt(5))}
ObservationsValues ==
    {None, Some(JList(<<JStr(<<115, 116, 101, 97, 109>>), JStr(<<32>>), JStr(<<115, 116, 101, 97, 109, 32>>)>>)),
     Some(JStr(<<98, 111, 119, 108>>)), Some(JList(<<JInt(2), JNull>>))}

VisionPayloads ==
    {JDict(Field(KEY_SCENE_TYPE, s) \o Field(KEY_WARNINGS, w)
           \o Field(KEY_OBSERVATIONS, o)) :
        s \in SceneValues, w \in WarningsValues, o \in ObservationsValues}

\* A provider that raises, one that returns a payload, a plain one that
\* returns something that is no dict.
VisionProviders ==
    {[type |-> t, response |-> RaisedWith("RuntimeError", <<98, 111, 111, 109>>)] :
        t \in {"plain", "gemini"}}
    \cup {[type |-> t, response |-> Returned(payload)] :
            t \in {"plain", "gemini"}, payload \in VisionPayloads}
    \cup {[type |-> "plain", response |-> Returned(JStr(<<102, 111, 111, 100>>))]}

AnalyzeInit ==
    /\ call \in {[fn |-> "analyze", provider |-> p, file_id |-> <<97, 49>>,
                  image_name |-> <<98, 46, 80, 78, 71>>, image_bytes |-> b] :
                    p \in {None} \cup {Some(v) : v \in VisionProviders},
                    b \in {None, Some(<<112, 110, 103>>)}}
    /\ result = NoResult
    /\ PipelineIdle

\* VisionClient.analyze(file_id, image_name, mime_type, image_bytes)
CallAnalyze ==
    /\ call.fn = "analyze"
    /\ result = NoResult
    /\ result' = AnalyzeFromProvider(call.provider, call.file_id, call.image_name,
                                     call.image_bytes)
    /\ UNCHANGED <<call, pipelineVars>>

AnalyzeNext == CallAnalyze

SpecAnalyze == AnalyzeInit /\ [][AnalyzeNext]_vars

AnalyzeReturned ==
    call.fn = "analyze" /\ result # NoResult /\ ~Raised(result)

\* What the provider did for the call.
ProviderOutcome ==
    AnalyzeImageOf(call.provider[1], call.image_name, call.image_bytes)

\* C22: a result of analyze has either an analysis or raw, never both and
\* never neither: raw = "vision provider not configured" without a
\* provider, raw = "vision analyze failed: " and the cause when the
\* provider call raised, and an analysis without raw otherwise.
C22_AnalysisOrRaw ==
    AnalyzeReturned =>
        /\ (result.value.analysis = None) # (result.value.raw = None)
        /\ IF call.provider = None
           THEN result.value.raw = Some(RAW_NOT_CONFIGURED)
           ELSE IF Raised(ProviderOutcome)
           THEN result.value.raw = Some(RAW_ANALYZE_FAILED \o ProviderOutcome.message)
           ELSE result.value.analysis # None

\* The provider call raised with the message "boom": no analysis, and raw
\* is "vision analyze failed: boom".
C22_Witness ==
    /\ AnalyzeReturned
    /\ call.provider # None
    /\ Raised(ProviderOutcome)
    /\ result.value.analysis = None
    /\ result.value.raw = Some(RAW_ANALYZE_FAILED \o <<98, 111, 111, 109>>)

\* C24 as stated: the scene_type of every analysis is one of food, menu,
\* interior, exterior, receipt, other.
C24_SceneTypeInFixedSet ==
    (AnalyzeReturned /\ result.value.analysis # None) =>
        result.value.analysis[1].scene_type \in ALLOWED_SCENE_TYPES

\* A plain provider (the JSON data file) with the scene_type "FOOD": the
\* analysis has the scene_type "FOOD".
C24_Witness ==
    /\ AnalyzeReturned
    /\ call.provider # None
    /\ call.provider[1].type = "plain"
    /\ result.value.analysis # None
    /\ result.value.analysis[1].scene_type = <<70, 79, 79, 68>>

IsBlankString(v) == v.type = "str" /\ Strip(v.str) = <<>>

\* C25 as stated: every analysis has warnings, and none of its lists holds
\* a blank string.
C25_WarningsNeverEmpty ==
    (AnalyzeReturned /\ result.value.analysis # None) =>
        LET analysis == result.value.analysis[1]
        IN /\ analysis.warnings # <<>>
           /\ \A list \in {analysis.observations, analysis.food_guess,
                            analysis.ambience_hints, analysis.bloggable_details,
                            analysis.warnings} :
                 \A i \in 1..Len(list) : ~IsBlankString(list[i])

\* A plain provider whose payload has the scene_type "food" and no
\* warnings: the analysis has an empty warnings list.
C25_Witness ==
    /\ AnalyzeReturned
    /\ call.provider # None
    /\ call.provider[1].type = "plain"
    /\ Get(call.provider[1].response.value, KEY_WARNINGS, JInt(0)) = JInt(0)
    /\ result.value.analysis # None
    /\ result.value.analysis[1].scene_type = <<102, 111, 111, 100>>
    /\ result.value.analysis[1].warnings = <<>>

\* With a provider that normalises its payloads, C24 and C25 hold.
NormalisedByGemini ==
    (AnalyzeReturned /\ result.value.analysis # None /\ call.provider # None
     /\ call.provider[1].type = "gemini") =>
        LET analysis == result.value.analysis[1]
        IN /\ analysis.scene_type \in ALLOWED_SCENE_TYPES
           /\ analysis.warnings # <<>>
           /\ \A i \in 1..Len(analysis.observations) :
                 ~IsBlankString(analysis.observations[i])

-----------------------------------------------------------------------------
(* _run_stage_3 image by image (src/src/pipeline.py): what download_bytes  *)
(* and the provider do for each image is an outcome of the call. The loop  *)
(* state is kept in result: the manifest at work, its results so far, the  *)
(* dictionary by folder name and the calls made to VisionClient.analyze.   *)

MaxStage3Images == 2

Stage3Image(i) ==
    [file_id |-> <<102, 48 + i>>, name |-> <<96 + i>> \o <<46, 112, 110, 103>>, mime_type |-> MIME_PNG]

Stage3Manifest(source_folder_name, first, last) ==
    [source_folder_name |-> source_folder_name,
     images |-> [i \in 1..(last - first + 1) |-> Stage3Image(first + i - 1)]]

\* One manifest with all the images, or two manifests that share them.
Stage3Manifests(n) ==
    {<<Stage3Manifest(FolderA.name, 1, n)>>}
    \cup {<<Stage3Manifest(FolderA.name, 1, k), Stage3Manifest(FolderB.name, k + 1, n)>> :
            k \in 1..(n - 1)}

IMAGE_BYTES == <<112, 110, 103>>

DownloadOutcomes == {Returned(IMAGE_BYTES), RaisedWith("OSError", <<103, 111, 110, 101>>)}

\* A usable payload, and one whose warnings are a number.
GoodPayload ==
    JDict(<<Pair(KEY_SCENE_TYPE, JStr(<<102, 111, 111, 100>>)),
            Pair(KEY_WARNINGS, JList(<<JStr(<<108, 111, 119, 32, 108, 105, 103, 104, 116>>)>>))>>)
MalformedPayload == JDict(<<Pair(KEY_WARNINGS, JInt(5))>>)

ResponseOutcomes ==
    {RaisedWith("RuntimeError", <<98, 111, 111, 109>>), Returned(GoodPayload),
     Returned(MalformedPayload)}

\* Variant of the download of the loop without the try: what download_bytes
\* raises is raised by the loop.
DownloadImageBytesUnguarded(downloaded) == downloaded

\* Lines 810-815: image_bytes is what download_bytes returned, or None when
\* it raised.
DownloadImageBytes(downloaded) ==
    IF Raised(downloaded) THEN Returned(None) ELSE Returned(Some(downloaded.value))

Stage3Init ==
    /\ \E n \in 1..MaxStage3Images :
         call \in {[fn |-> "_run_stage_3", manifests |-> ms, downloads |-> d,
                    provider_type |-> t, responses |-> r, should_write_vision |-> w] :
                      ms \in Stage3Manifests(n),
                      d \in [1..n -> DownloadOutcomes],
                      t \in {"none", "plain", "gemini"},
                      r \in [1..n -> ResponseOutcomes],
                      w \in BOOLEAN}
    /\ result = [manifest |-> 1, results |-> <<>>, by_folder |-> <<>>,
                 calls |-> <<>>, uploads |-> <<>>, returned |-> FALSE]
    /\ PipelineIdle

Stage3Running ==
    /\ call.fn = "_run_stage_3"
    /\ ~Raised(result)
    /\ ~result.returned

\* The number of the image at work among the images of the run.
Stage3ImageNumber == Len(result.calls) + 1

\* Lines 809-823: one pass of the loop over manifest.images
Stage3AnalyzeImage ==
    /\ Stage3Running
    /\ result.manifest <= Len(call.manifests)
    /\ Len(result.results) < Len(call.manifests[result.manifest].images)
    /\ \E image \in {call.manifests[result.manifest].images[Len(result.results) + 1]},
          image_bytes \in {DownloadImageBytes(call.downloads[Stage3ImageNumber])},
          provider \in {IF call.provider_type = "none" THEN None
                        ELSE Some([type |-> call.provider_type,
                                   response |-> call.responses[Stage3ImageNumber]])} :
         IF Raised(image_bytes)
         THEN result' = [raised |-> image_bytes.raised, during |-> "download_bytes"]
         ELSE \E analyzed \in {AnalyzeFromProvider(provider, image.file_id, image.name,
                                                    image_bytes.value)} :
                 IF Raised(analyzed)
                 THEN result' = [raised |-> analyzed.raised, during |-> "analyze"]
                 ELSE result' = [result EXCEPT
                          !.results = Append(@, analyzed.value),
                          !.calls = Append(@, [file_id |-> image.file_id,
                                               image_bytes |-> image_bytes.value])]
    /\ UNCHANGED <<call, pipelineVars>>

\* Line 824: by_folder[manifest.source_folder_name] = results
Stage3CloseFolder ==
    /\ Stage3Running
    /\ result.manifest <= Len(call.manifests)
    /\ Len(result.results) = Len(call.manifests[result.manifest].images)
    /\ result' = [result EXCEPT
           !.by_folder = DictSet(@, call.manifests[result.manifest].source_folder_name,
                                 result.results),
           !.results = <<>>,
           !.manifest = @ + 1]
    /\ UNCHANGED <<call, pipelineVars>>

\* Lines 826-833: the vision.json files and `return by_folder`
Stage3Return ==
    /\ Stage3Running
    /\ result.manifest > Len(call.manifests)
    /\ result' = [result EXCEPT
           !.uploads = IF call.should_write_vision
                       THEN WriteByFolder(result.by_folder, "vision.json")
                       ELSE <<>>,
           !.returned = TRUE]
    /\ UNCHANGED <<call, pipelineVars>>

Stage3Next ==
    \/ Stage3AnalyzeImage
    \/ Stage3CloseFolder
    \/ Stage3Return

SpecStage3 == Stage3Init /\ [][Stage3Next]_vars


\* Every provider call of the run raises or returns the usable payload.
OnlyRaisingFailures ==
    \A i \in DOMAIN call.responses :
        Raised(call.responses[i]) \/ call.responses[i].value = GoodPayload

\* The images of the run in the order of the manifests.
RECURSIVE Stage3ImagesOf(_)
Stage3ImagesOf(ms) ==
    IF ms = <<>> THEN <<>> ELSE Head(ms).images \o Stage3ImagesOf(Tail(ms))

\* The stage has returned: one entry per manifest, with one result per
\* image of the manifest in the order of the manifest, and one call of the
\* vision layer per image, without bytes where the download raised.
Stage3Yields ==
    /\ ~Raised(result)
    /\ result.returned
    /\ Len(result.by_folder) = Len(call.manifests)
    /\ \A m \in 1..Len(call.manifests) :
          LET images  == call.manifests[m].images
              results == result.by_folder[m].value
          IN /\ result.by_folder[m].key = call.manifests[m].source_folder_name
             /\ Len(results) = Len(images)
             /\ \A i \in 1..Len(images) :
                   /\ results[i].file_id = images[i].file_id
                   /\ results[i].name = images[i].name
    /\ LET images == Stage3ImagesOf(call.manifests)
       IN result.calls =
            [i \in 1..Len(images) |->
                [file_id |-> images[i].file_id,
                 image_bytes |-> IF Raised(call.downloads[i]) THEN None
                                 ELSE Some(call.downloads[i].value)]]

\* The loop has a next pass: an image of the manifest at work is left, or
\* the manifest is complete, or the manifests are.
Stage3HasNextStep ==
    \/ result.manifest > Len(call.manifests)
    \/ Len(result.results) <= Len(call.manifests[result.manifest].images)

\* C23: per-image failures never abort stage 3. Whatever images have a
\* download that raises or a provider call that raises, the stage never
\* raises and goes on until it returns, and it returns exactly one result
\* per image of every manifest, in the order of the manifest; an image
\* whose download raised has been passed to the vision layer without bytes.
C23_ImageFailuresNeverAbort ==
    (call.fn = "_run_stage_3" /\ OnlyRaisingFailures) =>
        /\ ~Raised(result)
        /\ IF result.returned THEN Stage3Yields ELSE Stage3HasNextStep
        /\ \A i \in 1..Len(result.calls) :
              (result.calls[i].image_bytes = None) = Raised(call.downloads[i])

\* A run of two images with a provider: the download of the first raises,
\* the provider call for the second raises, and the stage has returned two
\* results, the first from a call without bytes, the second with raw set.
C23_Witness ==
    /\ call.fn = "_run_stage_3"
    /\ call.provider_type = "plain"
    /\ Len(call.downloads) = 2
    /\ Raised(call.downloads[1])
    /\ ~Raised(call.downloads[2])
    /\ call.responses[1] = Returned(GoodPayload)
    /\ Raised(call.responses[2])
    /\ Stage3Yields
    /\ result.calls[1].image_bytes = None
    /\ result.by_folder[1].value[1].analysis # None
    /\ result.by_folder[Len(result.by_folder)].value[
           Len(result.by_folder[Len(result.by_folder)].value)].raw
         = Some(RAW_ANALYZE_FAILED \o <<98, 111, 111, 109>>)

\* A payload whose warnings are a number makes analyze raise, and the
\* stage with it.
MalformedPayloadAborts ==
    (call.fn = "_run_stage_3" /\ Raised(result)) =>
        /\ result.during = "analyze"
        /\ ~OnlyRaisingFailures

-----------------------------------------------------------------------------
(* collect_images_recursive pass by pass (src/src/scan_folders.py) over    *)
(* the listings of a storage: a root "r" and the folders "s" and "t".      *)
(* result holds the stack, the images collected, and the folders listed    *)
(* so far.                                                                 *)

MaxListing == 3
MaxPasses == 6

ROOT_ID == <<114>>

FileEntries ==
    {Entry(<<102, 49>>, <<97, 46, 106, 112, 103>>, MIME_JPEG),
     Entry(<<102, 50>>, <<66, 46, 80, 78, 71>>, MIME_PNG),
     Entry(<<102, 51>>, <<110, 111, 116, 101, 115, 46, 116, 120, 116>>, MIME_PLAIN),
     Entry(<<102, 52>>, <<32, 99, 46, 87, 101, 98, 80, 32>>, MIME_WEBP),
     Entry(<<>>, <<108, 111, 115, 116, 46, 106, 112, 103>>, MIME_JPEG),
     Entry(<<102, 54>>, <<106, 112, 101, 103>>, MIME_JPEG)}

SubFolder   == Entry(<<115>>, <<115, 117, 98>>, DRIVE_FOLDER_MIME_TYPE)
OtherFolder == Entry(<<116>>, <<112, 105, 99, 115, 46, 106, 112, 103>>, DRIVE_FOLDER_MIME_TYPE)
BackLink    == Entry(ROOT_ID, <<117, 112>>, DRIVE_FOLDER_MIME_TYPE)

\* The listings of at most n entries, each entry listed once.
ListingsOf(entries, n) ==
    {l \in UNION {[1..k -> entries] : k \in 0..n} :
        \A i, j \in DOMAIN l : i # j => l[i] # l[j]}

CollectStorages ==
    {[root_exists |-> TRUE, children |-> <<>>,
      folders |-> <<Folder(ROOT_ID, r), Folder(<<115>>, s), Folder(<<116>>, t)>>] :
        r \in ListingsOf(FileEntries \cup {SubFolder, OtherFolder}, MaxListing),
        s \in {<<>>, <<Entry(<<102, 55>>, <<65, 46, 106, 112, 101, 103>>, MIME_JPEG)>>,
               <<Entry(<<102, 55>>, <<65, 46, 106, 112, 101, 103>>, MIME_JPEG), BackLink>>},
        t \in {<<Entry(<<102, 56>>, <<98, 46, 112, 110, 103>>, MIME_PNG)>>, <<SubFolder>>}}

CollectInit ==
    /\ call \in {[fn |-> "collect_images_recursive", st |-> st, folder_id |-> ROOT_ID] :
                    st \in CollectStorages}
    /\ result = [stack |-> <<ROOT_ID>>, collected |-> <<>>, listed |-> <<>>,
                 returned |-> FALSE, value |-> <<>>]
    /\ PipelineIdle

\* Lines 135-151: one pass of `while stack:`
CollectPop ==
    /\ call.fn = "collect_images_recursive"
    /\ ~result.returned
    /\ result.stack # <<>>
    /\ Len(result.listed) < MaxPasses
    /\ \E pass \in {CollectPass(call.st, result.stack, result.collected)} :
         result' = [result EXCEPT
             !.stack = pass.stack,
             !.collected = pass.collected,
             !.listed = Append(@, result.stack[Len(result.stack)])]
    /\ UNCHANGED <<call, pipelineVars>>

\* Lines 153-154: the sort and the return, once the stack is empty
CollectReturn ==
    /\ call.fn = "collect_images_recursive"
    /\ ~result.returned
    /\ result.stack = <<>>
    /\ result' = [result EXCEPT !.returned = TRUE,
                                !.value = SortByName(result.collected)]
    /\ UNCHANGED <<call, pipelineVars>>

CollectNext ==
    \/ CollectPop
    \/ CollectReturn

SpecCollect == CollectInit /\ [][CollectNext]_vars

\* The folder entries a listing holds, as the loop sees them.
FolderIdsListed(st, folder_id) ==
    {Strip(e.id) : e \in {x \in Range(ListChildren(st, folder_id)) :
                            /\ Strip(x.id) # <<>>
                            /\ Strip(x.name) # <<>>
                            /\ Strip(x.mimeType) = DRIVE_FOLDER_MIME_TYPE}}

\* The folders reachable from a set of folders in at most n steps.
RECURSIVE ReachableWithin(_, _, _)
ReachableWithin(st, ids, n) ==
    IF n = 0 THEN ids
    ELSE ReachableWithin(st, ids \cup UNION {FolderIdsListed(st, id) : id \in ids}, n - 1)

ReachableFolders(st, folder_id) == ReachableWithin(st, {folder_id}, Len(st.folders))

\* The entries listed in the reachable folders that are no folders.
ReachableFiles(st, folder_id) ==
    {e \in UNION {Range(ListChildren(st, id)) : id \in ReachableFolders(st, folder_id)} :
        Strip(e.mimeType) # DRIVE_FOLDER_MIME_TYPE}

\* The reachable folders form a tree: no folder is listed in two places,
\* and none lists the root.
TreeBelow(st, folder_id) ==
    LET ids == ReachableFolders(st, folder_id)
    IN /\ \A id \in ids : folder_id \notin FolderIdsListed(st, id)
       /\ \A a, b \in ids : a # b => FolderIdsListed(st, a) \cap FolderIdsListed(st, b) = {}

CollectReturned == call.fn = "collect_images_recursive" /\ result.returned

SortedByLowerName(images) ==
    \A i, j \in 1..Len(images) :
        i < j => ~StrLess(Lower(images[j].name), Lower(images[i].name))


\* The name ends in .jpg, .jpeg, .png or .webp, in any case.
EndsInImageExtension(name) ==
    \E ext \in {<<46, 106, 112, 103>>, <<46, 106, 112, 101, 103>>, <<46, 112, 110, 103>>, <<46, 119, 101, 98, 112>>} :
        EndsWith(Lower(name), ext)

ImageOfEntry(e) == [file_id |-> e.id, name |-> e.name, mime_type |-> e.mimeType]

Trimmed(e) == Entry(Strip(e.id), Strip(e.name), Strip(e.mimeType))

\* C26 as stated: the images returned are exactly the reachable entries
\* that are no folders and whose name has a supported extension, and they
\* are sorted by lowercase name.
C26_ExactlySupportedEntries ==
    CollectReturned =>
        /\ Range(result.value) =
             {ImageOfEntry(e) : e \in {x \in ReachableFiles(call.st, call.folder_id) :
                                          EndsInImageExtension(x.name)}}
        /\ SortedByLowerName(result.value)

\* The reachable entries the loop takes for images: id, name and type are
\* not blank, the type is no folder, and the trimmed name has a supported
\* extension.
UsableImageEntries(st, folder_id) ==
    {e \in ReachableFiles(st, folder_id) :
        /\ Strip(e.id) # <<>>
        /\ Strip(e.name) # <<>>
        /\ Strip(e.mimeType) # <<>>
        /\ EndsInImageExtension(Strip(e.name))}

\* C26: collect_images_recursive returns exactly the reachable entries
\* that are no folders, have an id, a name and a type that are not blank,
\* and whose trimmed name ends in .jpg, .jpeg, .png or .webp in any case,
\* with the three fields trimmed and sorted by lowercase name; when the
\* folders form a tree, each of them appears once.
C26_ExactlyUsableSupportedEntries ==
    CollectReturned =>
        LET expected == {ImageOfEntry(Trimmed(e)) :
                            e \in UsableImageEntries(call.st, call.folder_id)}
        IN /\ Range(result.value) = expected
           /\ SortedByLowerName(result.value)
           /\ TreeBelow(call.st, call.folder_id) =>
                 Len(result.value) = Cardinality(expected)

\* The root lists B.PNG, notes.txt and the folder sub, which lists A.jpeg:
\* the two images are returned, A.jpeg first.
C26_Witness ==
    /\ CollectReturned
    /\ TreeBelow(call.st, call.folder_id)
    /\ Range(ListChildren(call.st, ROOT_ID))
         = {Entry(<<102, 50>>, <<66, 46, 80, 78, 71>>, MIME_PNG), Entry(<<102, 51>>, <<110, 111, 116, 101, 115, 46, 116, 120, 116>>, MIME_PLAIN),
            SubFolder}
    /\ result.listed = <<ROOT_ID, <<115>>>>
    /\ result.value = <<[file_id |-> <<102, 55>>, name |-> <<65, 46, 106, 112, 101, 103>>, mime_type |-> MIME_JPEG],
                        [file_id |-> <<102, 50>>, name |-> <<66, 46, 80, 78, 71>>, mime_type |-> MIME_PNG]>>

\* An entry lost.jpg without an id is left out, and " c.WebP " is returned
\* as c.WebP.
BlankIdLeftOut ==
    /\ CollectReturned
    /\ Entry(<<>>, <<108, 111, 115, 116, 46, 106, 112, 103>>, MIME_JPEG) \in Range(ListChildren(call.st, ROOT_ID))
    /\ Entry(<<102, 52>>, <<32, 99, 46, 87, 101, 98, 80, 32>>, MIME_WEBP) \in Range(ListChildren(call.st, ROOT_ID))
    /\ result.value = <<[file_id |-> <<102, 52>>, name |-> <<99, 46, 87, 101, 98, 80>>, mime_type |-> MIME_WEBP]>>


NoDuplicates(s) == \A i, j \in 1..Len(s) : i # j => s[i] # s[j]

\* C30 as stated: the traversal lists no folder twice, so that it ends
\* after at most one pass per folder, and no file appears twice in what it
\* returns.
C30_EachFolderListedOnce ==
    call.fn = "collect_images_recursive" =>
        /\ NoDuplicates(result.listed)
        /\ result.returned => NoDuplicates(result.value)

\* The root lists the folders pics.jpg and sub, and pics.jpg lists sub
\* again: sub has been listed twice and A.jpeg is returned twice.
C30_Witness ==
    /\ CollectReturned
    /\ ListChildren(call.st, ROOT_ID) = <<OtherFolder, SubFolder>>
    /\ ListChildren(call.st, <<116>>) = <<SubFolder>>
    /\ result.listed = <<ROOT_ID, <<115>>, <<116>>, <<115>>>>
    /\ result.value = <<[file_id |-> <<102, 55>>, name |-> <<65, 46, 106, 112, 101, 103>>, mime_type |-> MIME_JPEG],
                        [file_id |-> <<102, 55>>, name |-> <<65, 46, 106, 112, 101, 103>>, mime_type |-> MIME_JPEG]>>

\* A reachable folder lists the root.
CycleBelow(st, folder_id) ==
    \E id \in ReachableFolders(st, folder_id) : folder_id \in FolderIdsListed(st, id)

\* With a cycle the stack never gets empty and the call never returns.
CycleNeverReturns ==
    (call.fn = "collect_images_recursive" /\ CycleBelow(call.st, call.folder_id)) =>
        /\ ~result.returned
        /\ result.stack # <<>>

\* The root has been listed three times and the same image collected
\* three times.
CycleListsRootAgain ==
    /\ call.fn = "collect_images_recursive"
    /\ ListChildren(call.st, ROOT_ID) = <<SubFolder>>
    /\ result.listed = <<ROOT_ID, <<115>>, ROOT_ID, <<115>>, ROOT_ID, <<115>>>>
    /\ Len(result.collected) = 3
    /\ result.stack = <<ROOT_ID>>


-----------------------------------------------------------------------------
(* The output paths of a run. A selected folder writes each of its files   *)
(* once, to the folder of its name below the output root, so two equal     *)
(* uploads are the uploads of two folders.                                 *)

DistinctFolderIds ==
    \A i, j \in 1..Len(manifests) :
        i # j => manifests[i].source_folder_id # manifests[j].source_folder_id

\* C27 as stated: the selected folders have distinct ids, no two of them
\* write a file to the same path of the output root, and after stage 4
\* there is one report per selected folder.
C27_NoTwoFoldersWriteSamePath ==
    /\ DistinctFolderIds
    /\ NoDuplicates(writes)
    /\ 4 \in Range(stagesRun) => Len(reports) = Len(manifests)

\* Three folders are selected, two of them with different ids and the
\* same name 20260214_B: manifest.json and review.html of that name have
\* each been written twice, and there are two reports.
C27_Witness ==
    /\ pc = "done"
    /\ 4 \in Range(stagesRun)
    /\ Len(manifests) = 3
    /\ DistinctFolderIds
    /\ \E i, j \in 1..Len(manifests) :
          /\ i # j
          /\ manifests[i].source_folder_name = manifests[j].source_folder_name
          /\ manifests[i].source_folder_name = FolderB.name
    /\ Len(SelectSeq(writes, LAMBDA w : w = Upload(FolderB.name, "manifest.json"))) = 2
    /\ Len(SelectSeq(writes, LAMBDA w : w = Upload(FolderB.name, "review.html"))) = 2
    /\ Len(reports) = 2

\* Folders with distinct names write to distinct paths and have a report
\* each.
DistinctNamesWriteApart ==
    (\A i, j \in 1..Len(manifests) :
        i # j => manifests[i].source_folder_name # manifests[j].source_folder_name)
    => /\ NoDuplicates(writes)
       /\ 4 \in Range(stagesRun) => Len(reports) = Len(manifests)


Stage1Raised == Raised(outcome) /\ outcome.during = "_run_stage_1"

\* C28: a failing stage 1 persists nothing. When the run is aborted in
\* stage 1 by an error of the discovery, no folder has been ensured and no
\* file written below the output root, also not for the selected folders
\* that were processed before the failing one.
C28_FailingStage1WritesNothing ==
    Stage1Raised => writes = <<>>

\* Three folders are selected and manifests are to be written; the first
\* two hold images, the third does not: the run has raised RuntimeError
\* and nothing has been written.
C28_Witness ==
    /\ pc = "done"
    /\ Stage1Raised
    /\ outcome.raised = "RuntimeError"
    /\ ShouldWrite(config, 1)
    /\ config.latest = 3
    /\ storage.children = <<FolderE, FolderA, FolderB>>
    /\ CollectImagesRecursive(storage, FolderB.id) # <<>>
    /\ CollectImagesRecursive(storage, FolderA.id) # <<>>
    /\ CollectImagesRecursive(storage, FolderE.id) = <<>>
    /\ writes = <<>>


-----------------------------------------------------------------------------
(* The recent-review teaser of _build_paragraphs.                          *)

BuildParagraphsReturned == call.fn = "_build_paragraphs" /\ result # NoResult

\* The review with the greatest timestamp.
MostRecentReview(recent_reviews) ==
    CHOOSE r \in Range(recent_reviews) :
        \A other \in Range(recent_reviews) : other.time[1] <= r.time[1]

\* The text without surrounding whitespace and line feeds, as it is when
\* it has at most 90 characters, and otherwise cut to at most 90 characters
\* with "..." behind.
TeaserSummaries(text) ==
    LET cleaned == Replace(Strip(text), <<NEWLINE>>, <<32>>)
    IN IF Len(cleaned) <= 90 THEN {cleaned}
       ELSE {SubSeq(cleaned, 1, k) \o <<46, 46, 46>> : k \in 1..90}

\* The teaser paragraphs for a review, as they are returned.
TeasersFor(review) ==
    {SanitizeText(FormatTemplate(recent_review_template,
        [review_count |-> IntToStr(Len(call.restaurant_info.recent_reviews)),
         summary |-> summary,
         restaurant_name |-> call.manifest.restaurant_name])) :
        summary \in TeaserSummaries(review.text) \ {<<>>}}

\* C29 as stated: when there are recent reviews, the teaser paragraph is
\* built from the review with the greatest timestamp, its text cut to 90
\* characters with "..." behind it only when it was cut.
C29_TeaserFromMostRecentReview ==
    (BuildParagraphsReturned /\ call.restaurant_info.recent_reviews # <<>>) =>
        LET teasers == TeasersFor(MostRecentReview(call.restaurant_info.recent_reviews))
        IN teasers # {} => \E i \in 1..Len(result.value) : result.value[i] \in teasers

\* The reviews are "Older" of day 90 and "Newer" of day 95, in this order:
\* the teaser returned is the one of "Older", and none is of "Newer".
C29_Witness ==
    /\ BuildParagraphsReturned
    /\ Len(call.restaurant_info.recent_reviews) = 2
    /\ call.restaurant_info.recent_reviews[1].text = <<79, 108, 100, 101, 114>>
    /\ call.restaurant_info.recent_reviews[2].text = <<78, 101, 119, 101, 114>>
    /\ call.restaurant_info.recent_reviews[1].time[1]
         < call.restaurant_info.recent_reviews[2].time[1]
    /\ \E i \in 1..Len(result.value) :
          result.value[i] \in TeasersFor(call.restaurant_info.recent_reviews[1])
    /\ \A i \in 1..Len(result.value) :
          result.value[i] \notin TeasersFor(call.restaurant_info.recent_reviews[2])

\* The teaser is built from the first review of the list, cut as stated.
TeaserFromFirstReview ==
    (BuildParagraphsReturned /\ call.restaurant_info.recent_reviews # <<>>) =>
        LET teasers == TeasersFor(call.restaurant_info.recent_reviews[1])
        IN teasers # {} => \E i \in 1..Len(result.value) : result.value[i] \in teasers

\* The text of 100 characters is cut to its first 89 with "..." behind.
LongReviewCut ==
    /\ BuildParagraphsReturned
    /\ call.restaurant_info.recent_reviews # <<>>
    /\ call.restaurant_info.recent_reviews[1].text = LongReviewText
    /\ \E i \in 1..Len(result.value) :
          result.value[i] =
            SanitizeText(FormatTemplate(recent_review_template,
                [review_count |-> IntToStr(1),
                 summary |-> SubSeq(LongReviewText, 1, 89) \o <<46, 46, 46>>,
                 restaurant_name |-> call.manifest.restaurant_name]))

====
